---- MODULE Spec2Model ----
(***************************************************************************)
(* A model of the ATS Buddy request handler (src/src/handler.py) and of    *)
(* the deduplication layer it drives (deduplication_service.py,            *)
(* dynamodb_client.py, file_hash_utils.py), with the text extractor, the   *)
(* PII detector, the analysis engine and the report builder as the         *)
(* collaborators whose calls may succeed or fail.                          *)
(*                                                                         *)
(* Strings and byte sequences are sequences of character codes.  Every     *)
(* external call is one atomic step of the invocation that makes it.       *)
(***************************************************************************)
EXTENDS Integers, Sequences, FiniteSets, TLC

VARIABLES
    cache,      \* the resume-cache table: file_hash -> item
    objects,    \* the resumes bucket: object key -> bytes
    now,        \* the clock, in hours
    config,     \* the environment the function was deployed with
    pc,         \* per invocation: the stage it is about to run
    req,        \* per invocation: the event being handled
    loc,        \* per invocation: the handler's local variables
    log,        \* per invocation: the external calls made for this event
    resp,       \* per invocation: the envelope returned (NoResponse before)
    started,    \* the number of events received so far
    last,       \* what the previous event of the same invocation slot did
    bedrock,    \* the analysis engine: the model's reply and what was made of it
    redaction,  \* the scrubber: the text, the detector's answer and the outcome
    textract,   \* the extraction client: where the call is and what it has seen
    reporter,   \* the report builder: the outcome of each of its storage calls
    renderer    \* the report renderer: the analysis it was given and what it rendered

\* the state of the clients when they are run on their own
clients == <<bedrock, redaction, textract, reporter, renderer>>

\* the state of the handler and of the services behind it
invocations == <<cache, objects, now, config, pc, req, loc, log, resp, started, last>>

vars == <<invocations, clients>>

(***************************************************************************)
(* Bounds of the model.                                                    *)
(***************************************************************************)
MaxRequests == 2      \* events received over a behaviour
MaxClock == 12        \* the clock stops here
ClockStep == 12       \* hours between two observations of the clock

(***************************************************************************)
(* Program constants.                                                      *)
(***************************************************************************)
TTL_HOURS == 12            \* put_resume_cache(ttl_hours=12)
PII_MIN_TEXT == 10         \* len(text.strip()) < 10 skips detection
PII_THRESHOLD == 70        \* confidence >= 0.7, in percent
PII_MASK_CAP == 8          \* '*' * min(pii_length, 8)
MIN_JOB_DESCRIPTION == 50  \* web floor on the job description
HASH_PREFIX == 8           \* content_hash[:8]

(***************************************************************************)
(* Characters and strings.                                                 *)
(***************************************************************************)
SPACE == 32
STAR == 42
SLASH == 47
DOT == 46
Whitespace == {9, 10, 13, SPACE}

Min(a, b) == IF a < b THEN a ELSE b

RECURSIVE LStrip(_)
LStrip(s) == IF s # <<>> /\ Head(s) \in Whitespace THEN LStrip(Tail(s)) ELSE s

RECURSIVE RStrip(_)
RStrip(s) ==
    IF s # <<>> /\ s[Len(s)] \in Whitespace
    THEN RStrip(SubSeq(s, 1, Len(s) - 1))
    ELSE s

\* str.strip()
Strip(s) == RStrip(LStrip(s))

\* str.lower() on one character
LowerChar(c) == IF c \in 65..90 THEN c + 32 ELSE c

\* s.lower().endswith(suffix)
LowerEndsWith(s, suffix) ==
    /\ Len(s) >= Len(suffix)
    /\ \A k \in 1..Len(suffix) :
          LowerChar(s[Len(s) - Len(suffix) + k]) = suffix[k]

\* s.startswith(prefix)
StartsWith(s, prefix) ==
    /\ Len(s) >= Len(prefix)
    /\ SubSeq(s, 1, Len(prefix)) = prefix

\* s[:n]
Prefix(s, n) == SubSeq(s, 1, Min(n, Len(s)))

RECURSIVE LastSegment(_)
\* s.split("/")[-1]
LastSegment(s) ==
    IF \E k \in 1..Len(s) : s[k] = SLASH
    THEN LastSegment(Tail(s))
    ELSE s

\* n copies of one character
Repeat(c, n) == [k \in 1..n |-> c]

(***************************************************************************)
(* JSON values.  A field of an event is a string (a sequence of character  *)
(* codes), a number, or a list; Str, NumberValue and List keep them apart. *)
(***************************************************************************)
Str(s) == [ty |-> "str", val |-> s]
NumberValue == [ty |-> "num", val |-> <<>>]
List(items) == [ty |-> "list", val |-> items]

IsStr(v) == v.ty = "str"

\* x.strip() raises AttributeError on a value that is not a string
StripRaises(v) == ~IsStr(v)

\* not x.strip(), for a string
IsBlank(v) == Strip(v.val) = <<>>

\* "name" in event
Has(event, name) == name \in DOMAIN event

\* the in operator raises TypeError on an event that is a JSON number
IsContainer(event) == ~Has(event, "json_number")

(***************************************************************************)
(* The data of the model: documents, their text, keys, job descriptions.   *)
(***************************************************************************)
EmptyFile == <<>>
FileA == <<1>>
FileB == <<2>>
Files == {EmptyFile, FileA, FileB}

\* the object key is absent from the bucket
NoObject == <<0, 0>>

KeyA == <<99, 118, 47, 97, 46, 112, 100, 102>>
KeyB == <<98, 46, 80, 68, 70>>
KeyC == <<99, 46, 112, 100, 102>>
KeyEmpty == <<101, 109, 112, 116, 121, 46, 112, 100, 102>>
KeyMissing == <<103, 111, 110, 101, 46, 112, 100, 102>>
KeyText == <<110, 111, 116, 101, 115, 46, 116, 120, 116>>
Keys == {KeyA, KeyB, KeyC, KeyEmpty, KeyMissing, KeyText}
UploadName == <<97, 46, 112, 100, 102>>

\* the resumes bucket as deployed: two keys hold the same document
InitialObjects ==
    [k \in Keys |->
        IF k \in {KeyA, KeyB, KeyText} THEN FileA
        ELSE IF k = KeyC THEN FileB
        ELSE IF k = KeyEmpty THEN EmptyFile
        ELSE NoObject]

BucketName == <<114, 101, 115, 117, 109, 101, 115>>
RealReportsBucket == <<114, 101, 112, 111, 114, 116, 115>>
PlaceholderBucket == <<97, 116, 115, 45, 98, 117, 100, 100, 121, 45, 114, 101, 112, 111, 114, 116, 115>>
LocalBucket == <<108, 111, 99, 97, 108, 45, 100, 101, 118>>
LocalPrefix == <<108, 111, 99, 97, 108, 45>>
PdfSuffix == <<46, 112, 100, 102>>
DefaultJobTitle == <<80, 111, 115, 105, 116, 105, 111, 110>>
WebJobTitle == <<87, 101, 98, 32, 65, 110, 97, 108, 121, 115, 105, 115>>
DefaultResumeName == <<114, 101, 115, 117, 109, 101, 46, 116, 120, 116>>
FallbackFilename == <<117, 110, 107, 110, 111, 119, 110, 46, 112, 100, 102>>

JobDesc == <<112, 121, 116, 104, 111, 110, 32, 100, 101, 118>>
BlankText == <<SPACE, SPACE>>
LongJobDesc == Repeat(106, MIN_JOB_DESCRIPTION)
ShortJobDesc == Repeat(106, MIN_JOB_DESCRIPTION - 1)
ResumeText == <<116, 101, 110, 32, 121, 101, 97, 114, 115, 32, 106, 97, 118, 97>>

\* What the text extractor reads in a document: FileA is a plain page,
\* FileB a page that names a person, the empty file has no text.
TextA == <<115, 107, 105, 108, 108, 115, 58, 32, 115, 113, 108>>
PersonName == <<74, 111, 110, 97, 116, 104, 97, 110, 32, 83, 109, 105, 116, 104, 101, 114, 115>>
TextB == PersonName \o <<44, 32, 100, 101, 118>>
DocText(bytes) ==
    IF bytes = FileA THEN TextA
    ELSE IF bytes = FileB THEN TextB
    ELSE <<>>

(***************************************************************************)
(* hashlib.sha256(...).hexdigest(): a digest longer than HASH_PREFIX that  *)
(* differs for different contents.                                         *)
(***************************************************************************)
Sha256(bytes) ==
    Repeat(IF bytes = <<>> THEN 0 ELSE bytes[1], HASH_PREFIX) \o <<Len(bytes)>> \o bytes

NoHash == <<>>

(***************************************************************************)
(* Response envelopes.  An error message is a sequence of its pieces.      *)
(***************************************************************************)
NoResponse == [none |-> TRUE]

create_error_response(status_code, error_message) ==
    [statusCode |-> status_code,
     body |-> [success |-> FALSE, error |-> error_message]]

create_success_response(data) ==
    [statusCode |-> 200, body |-> ([success |-> TRUE] @@ data)]

CorsHeaders ==
    [AccessControlAllowOrigin |-> "*",
     AccessControlAllowMethods |-> "GET, POST, PUT, DELETE, OPTIONS",
     AccessControlAllowHeaders |->
         "Content-Type, Authorization, X-Requested-With, X-Amz-Date, X-Api-Key, X-Amz-Security-Token",
     AccessControlAllowCredentials |-> "false",
     AccessControlMaxAge |-> "86400",
     ContentType |-> "application/json"]

\* a web response built as the responses of direct invocations are, without
\* headers
create_cors_response_without_headers(status_code, data) ==
    [statusCode |-> status_code, body |-> data]

create_cors_response(status_code, data) ==
    [statusCode |-> status_code, headers |-> CorsHeaders, body |-> data]

(***************************************************************************)
(* Routing and validation.                                                 *)
(***************************************************************************)
is_api_gateway_request(event) ==
    \/ /\ Has(event, "requestContext")
       /\ Has(event.requestContext, "http")
       /\ Has(event.requestContext.http, "method")
    \/ /\ Has(event, "httpMethod")
       /\ Has(event, "headers")

\* event.get("httpMethod") or event.get("requestContext", {}).get("http", {}).get("method")
HttpMethodOf(event) ==
    IF Has(event, "httpMethod") THEN event.httpMethod
    ELSE event.requestContext.http.method

\* event.get("path") or event.get("requestContext", {}).get("http", {}).get("path", "")
HttpPathOf(event) ==
    IF Has(event, "path") THEN event.path
    ELSE IF Has(event, "requestContext") /\ Has(event.requestContext.http, "path")
         THEN event.requestContext.http.path
         ELSE ""

InvalidFormatError ==
    <<"Invalid event format. Expected: complete pipeline (bucket_name + s3_key + job_description), S3 upload event, direct extraction (bucket_name + s3_key), or analysis only (resume_text + job_description)">>

\* "Records" in event and event["Records"]
HasRecords(event) ==
    /\ Has(event, "Records")
    /\ \/ event.Records.ty = "num"
       \/ event.Records.val # <<>>

\* a validation that looks for the Records list before the locator
validate_input_records_first(event) ==
    IF HasRecords(event)
    THEN [valid |-> TRUE, event_type |-> "s3_upload"]
    ELSE IF Has(event, "bucket_name") /\ Has(event, "s3_key") /\ Has(event, "job_description")
    THEN IF StripRaises(event.job_description)
         THEN [valid |-> FALSE, error |-> <<"Invalid event structure">>]
         ELSE IF IsBlank(event.job_description)
         THEN [valid |-> FALSE, error |-> <<"Job description cannot be empty">>]
         ELSE [valid |-> TRUE, event_type |-> "complete_pipeline"]
    ELSE IF Has(event, "bucket_name") /\ Has(event, "s3_key")
    THEN [valid |-> TRUE, event_type |-> "direct_extraction"]
    ELSE IF Has(event, "resume_text") /\ Has(event, "job_description")
    THEN IF StripRaises(event.resume_text)
         THEN [valid |-> FALSE, error |-> <<"Invalid event structure">>]
         ELSE IF IsBlank(event.resume_text)
         THEN [valid |-> FALSE, error |-> <<"Resume text cannot be empty">>]
         ELSE IF StripRaises(event.job_description)
         THEN [valid |-> FALSE, error |-> <<"Invalid event structure">>]
         ELSE IF IsBlank(event.job_description)
         THEN [valid |-> FALSE, error |-> <<"Job description cannot be empty">>]
         ELSE [valid |-> TRUE, event_type |-> "analysis_only"]
    ELSE [valid |-> FALSE, error |-> InvalidFormatError]

\* a validation in which a blank job description only skips the first shape
validate_input_falling_through(event) ==
    IF /\ Has(event, "bucket_name") /\ Has(event, "s3_key") /\ Has(event, "job_description")
       /\ ~StripRaises(event.job_description) /\ ~IsBlank(event.job_description)
    THEN [valid |-> TRUE, event_type |-> "complete_pipeline"]
    ELSE IF HasRecords(event)
    THEN [valid |-> TRUE, event_type |-> "s3_upload"]
    ELSE IF Has(event, "bucket_name") /\ Has(event, "s3_key")
    THEN [valid |-> TRUE, event_type |-> "direct_extraction"]
    ELSE IF Has(event, "resume_text") /\ Has(event, "job_description")
    THEN IF StripRaises(event.resume_text)
         THEN [valid |-> FALSE, error |-> <<"Invalid event structure">>]
         ELSE IF IsBlank(event.resume_text)
         THEN [valid |-> FALSE, error |-> <<"Resume text cannot be empty">>]
         ELSE IF StripRaises(event.job_description)
         THEN [valid |-> FALSE, error |-> <<"Invalid event structure">>]
         ELSE IF IsBlank(event.job_description)
         THEN [valid |-> FALSE, error |-> <<"Job description cannot be empty">>]
         ELSE [valid |-> TRUE, event_type |-> "analysis_only"]
    ELSE [valid |-> FALSE, error |-> InvalidFormatError]


validate_input(event) ==
    IF Has(event, "bucket_name") /\ Has(event, "s3_key") /\ Has(event, "job_description")
    THEN IF StripRaises(event.job_description)
         THEN [valid |-> FALSE, error |-> <<"Invalid event structure">>]
         ELSE IF IsBlank(event.job_description)
         THEN [valid |-> FALSE, error |-> <<"Job description cannot be empty">>]
         ELSE [valid |-> TRUE, event_type |-> "complete_pipeline"]
    ELSE IF HasRecords(event)
    THEN [valid |-> TRUE, event_type |-> "s3_upload"]
    ELSE IF Has(event, "bucket_name") /\ Has(event, "s3_key")
    THEN [valid |-> TRUE, event_type |-> "direct_extraction"]
    ELSE IF Has(event, "resume_text") /\ Has(event, "job_description")
    THEN IF StripRaises(event.resume_text)
         THEN [valid |-> FALSE, error |-> <<"Invalid event structure">>]
         ELSE IF IsBlank(event.resume_text)
         THEN [valid |-> FALSE, error |-> <<"Resume text cannot be empty">>]
         ELSE IF StripRaises(event.job_description)
         THEN [valid |-> FALSE, error |-> <<"Invalid event structure">>]
         ELSE IF IsBlank(event.job_description)
         THEN [valid |-> FALSE, error |-> <<"Job description cannot be empty">>]
         ELSE [valid |-> TRUE, event_type |-> "analysis_only"]
    ELSE [valid |-> FALSE, error |-> InvalidFormatError]

(***************************************************************************)
(* The form parser.  The body is the byte sequence of the request; it is   *)
(* split at the boundary, each part at its first blank line, and the part  *)
(* is told by the name in its header block.                                *)
(***************************************************************************)
MultipartPrefix == <<109, 117, 108, 116, 105, 112, 97, 114, 116, 47, 102, 111, 114, 109, 45, 100, 97, 116, 97>>
BoundaryParameter == <<98, 111, 117, 110, 100, 97, 114, 121, 61>>
MultipartNoBoundary == MultipartPrefix
MultipartType == MultipartPrefix \o <<59, 32>> \o BoundaryParameter \o <<88>>
JsonType == <<97, 112, 112, 108, 105, 99, 97, 116, 105, 111, 110, 47, 106, 115, 111, 110>>

QUOTE == <<34>>
SEMICOLON == <<59>>
TwoDashes == <<45, 45>>
CRLF == <<13, 10>>
BlankLineCRLF == CRLF \o CRLF
BlankLineLF == <<10, 10>>

\* bytes.strip() removes these
ByteWhitespace == {9, 10, 11, 12, 13, 32}

\* the characters of b"\r\n--"
TrailingArtifacts == {13, 10, 45}

\* s.find(sub) + 1: the first position where sub occurs in s, 0 when nowhere
FindSub(s, sub) ==
    LET hits == {k \in 1..(Len(s) - Len(sub) + 1) :
                    SubSeq(s, k, k + Len(sub) - 1) = sub}
    IN IF hits = {} THEN 0 ELSE CHOOSE k \in hits : \A m \in hits : k <= m

\* sub in s
Contains(s, sub) == FindSub(s, sub) # 0

RECURSIVE SplitOn(_, _)
\* s.split(sep)
SplitOn(s, sep) ==
    LET k == FindSub(s, sep) IN
    IF k = 0 THEN <<s>>
    ELSE <<SubSeq(s, 1, k - 1)>> \o SplitOn(SubSeq(s, k + Len(sep), Len(s)), sep)

\* s.split(sep, 1): the text before the first sep and the text after it
SplitOnce(s, sep) ==
    LET k == FindSub(s, sep) IN
    <<SubSeq(s, 1, k - 1), SubSeq(s, k + Len(sep), Len(s))>>

RECURSIVE LStripChars(_, _)
LStripChars(s, chars) ==
    IF s # <<>> /\ Head(s) \in chars THEN LStripChars(Tail(s), chars) ELSE s

RECURSIVE RStripChars(_, _)
\* s.rstrip(chars): every trailing character that is one of chars is removed
RStripChars(s, chars) ==
    IF s # <<>> /\ s[Len(s)] \in chars
    THEN RStripChars(SubSeq(s, 1, Len(s) - 1), chars)
    ELSE s

\* s.strip(chars)
StripChars(s, chars) == RStripChars(LStripChars(s, chars), chars)

IsMultipart(content_type) == StartsWith(content_type, MultipartPrefix)

RECURSIVE FirstBoundary(_)
\* the loop over content_type.split(";"): the value of the first boundary=
\* parameter without its quotes, None when there is no such parameter
FirstBoundary(pieces) ==
    IF pieces = <<>> THEN <<>>
    ELSE LET part == Strip(Head(pieces)) IN
         IF StartsWith(part, BoundaryParameter)
         THEN StripChars(SubSeq(part, Len(BoundaryParameter) + 1, Len(part)), {QUOTE[1]})
         ELSE FirstBoundary(Tail(pieces))

BoundaryOf(content_type) == FirstBoundary(SplitOn(content_type, SEMICOLON))

HasBoundary(content_type) == BoundaryOf(content_type) # <<>>

FileFieldNames == {<<114, 101, 115, 117, 109, 101>>, <<112, 100, 102>>}
TextFieldNames == {<<106, 111, 98, 68, 101, 115, 99, 114, 105, 112, 116, 105, 111, 110>>, <<106, 111, 98, 95, 100, 101, 115, 99, 114, 105, 112, 116, 105, 111, 110>>}

\* 'name="<field>"' in headers_text, for one of the field names
NamesField(headers_text, names) ==
    \E n \in names : Contains(headers_text, <<110, 97, 109, 101, 61>> \o QUOTE \o n \o QUOTE)

FilenameAttribute == <<102, 105, 108, 101, 110, 97, 109, 101, 61>> \o QUOTE

\* re.search(r'filename="([^"]+)"', headers_text): the group of the leftmost
\* match, None when there is no match
FilenameIn(headers_text) ==
    LET n == Len(FilenameAttribute)
        closes(k) == {m \in (k + n + 1)..Len(headers_text) : headers_text[m] = QUOTE[1]}
        starts == {k \in 1..(Len(headers_text) - n) :
                      /\ SubSeq(headers_text, k, k + n - 1) = FilenameAttribute
                      /\ headers_text[k + n] # QUOTE[1]
                      /\ closes(k) # {}}
    IN IF starts = {} THEN <<>>
       ELSE LET k == CHOOSE x \in starts : \A y \in starts : x <= y
                m == CHOOSE x \in closes(k) : \A y \in closes(k) : x <= y
            IN SubSeq(headers_text, k + n, m - 1)

\* whether the loop skips the part: nothing but whitespace or the closing
\* dashes, or no blank line between a header block and a content
SkipsPart(part) ==
    \/ StripChars(part, ByteWhitespace) = <<>>
    \/ StripChars(part, ByteWhitespace) = TwoDashes
    \/ ~Contains(part, BlankLineCRLF) /\ ~Contains(part, BlankLineLF)

\* headers_section, content = part.split(b"\r\n\r\n", 1), or at b"\n\n"
HeadersAndContent(part) ==
    IF Contains(part, BlankLineCRLF) THEN SplitOnce(part, BlankLineCRLF)
    ELSE SplitOnce(part, BlankLineLF)

RECURSIVE ScanParts(_, _)
\* the loop over the parts: a later part of a kind replaces an earlier one
ScanParts(parts, acc) ==
    IF parts = <<>> THEN acc
    ELSE LET part == Head(parts)
             headers_text == HeadersAndContent(part)[1]
             content == HeadersAndContent(part)[2]
             next ==
                 IF SkipsPart(part) THEN acc
                 ELSE IF NamesField(headers_text, FileFieldNames)
                 THEN [acc EXCEPT !.pdf_content = RStripChars(content, TrailingArtifacts),
                                  !.has_pdf = TRUE,
                                  !.original_filename =
                                      IF FilenameIn(headers_text) # <<>>
                                      THEN FilenameIn(headers_text) ELSE @]
                 ELSE IF NamesField(headers_text, TextFieldNames)
                 THEN [acc EXCEPT !.job_description =
                                      Strip(RStripChars(content, TrailingArtifacts)),
                                  !.has_job_description = TRUE]
                 ELSE acc
         IN ScanParts(Tail(parts), next)

\* base64.b64decode(body) or body.encode('utf-8') yields the bytes of the
\* body; either raises on a body that is not text in that encoding
Decodes(body) == Has(body, "raw")

parse_multipart_form_data(event) ==
    LET content_type == event.headers.content_type IN
    IF ~IsMultipart(content_type)
    THEN [success |-> FALSE, error |-> <<"Content-Type must be multipart/form-data">>]
    ELSE IF ~Decodes(event.body)
    THEN [success |-> FALSE, error |-> <<"Failed to parse form data">>]
    ELSE IF ~HasBoundary(content_type)
    THEN [success |-> FALSE, error |-> <<"No boundary found in Content-Type header">>]
    ELSE LET found == ScanParts(SplitOn(event.body.raw, TwoDashes \o BoundaryOf(content_type)),
                          [pdf_content |-> <<>>, has_pdf |-> FALSE,
                           job_description |-> <<>>, has_job_description |-> FALSE,
                           original_filename |-> FallbackFilename])
         IN IF ~found.has_pdf \/ found.pdf_content = <<>>
            THEN [success |-> FALSE, error |-> <<"PDF file is required">>]
            ELSE IF ~found.has_job_description \/ found.job_description = <<>>
            THEN [success |-> FALSE, error |-> <<"Job description is required">>]
            ELSE IF Len(Strip(found.job_description)) < MIN_JOB_DESCRIPTION
            THEN [success |-> FALSE,
                  error |-> <<"Job description must be at least 50 characters">>]
            ELSE [success |-> TRUE,
                  pdf_content |-> found.pdf_content,
                  job_description |-> found.job_description,
                  original_filename |-> found.original_filename]

(***************************************************************************)
(* PII redaction of extracted text.  An answer of the detector is either a *)
(* list of entities or a failure of the call.                              *)
(***************************************************************************)
Entity(score, begin, end) == [Score |-> score, BeginOffset |-> begin, EndOffset |-> end]

RECURSIVE InsertDesc(_, _)
\* place e after the entities whose BeginOffset is not smaller (a stable sort)
InsertDesc(e, sorted) ==
    IF sorted = <<>> THEN <<e>>
    ELSE IF Head(sorted).BeginOffset >= e.BeginOffset
         THEN <<Head(sorted)>> \o InsertDesc(e, Tail(sorted))
         ELSE <<e>> \o sorted

RECURSIVE SortDesc(_)
\* entities.sort(key=lambda x: x['BeginOffset'], reverse=True)
SortDesc(entities) ==
    IF entities = <<>> THEN <<>>
    ELSE InsertDesc(Head(entities), SortDesc(Tail(entities)))

\* a mask as long as the span it replaces
MaskSpan_uncapped(text, begin, end) ==
    LET pii_length == end - begin
        stars == IF pii_length > 0 THEN pii_length ELSE 0
    IN SubSeq(text, 1, Min(begin, Len(text)))
       \o Repeat(STAR, stars)
       \o SubSeq(text, Min(end, Len(text)) + 1, Len(text))

\* text[:begin] + '*' * min(length, 8) + text[end:]
MaskSpan(text, begin, end) ==
    LET pii_length == end - begin
        stars == IF pii_length > 0 THEN Min(pii_length, PII_MASK_CAP) ELSE 0
    IN SubSeq(text, 1, Min(begin, Len(text)))
       \o Repeat(STAR, stars)
       \o SubSeq(text, Min(end, Len(text)) + 1, Len(text))

RECURSIVE RedactAll(_, _)
\* the loop over the sorted entities; yields the text and the redaction count
RedactAll(entities, acc) ==
    IF entities = <<>> THEN acc
    ELSE LET e == Head(entities) IN
         RedactAll(Tail(entities),
             IF e.Score >= PII_THRESHOLD
             THEN [text |-> MaskSpan(acc.text, e.BeginOffset, e.EndOffset),
                   count |-> acc.count + 1]
             ELSE acc)

\* whether the text is long enough for the detector to be called at all
PiiCallsDetector(text) == Len(Strip(text)) >= PII_MIN_TEXT

\* a redaction whose failure path hands back an empty text
apply_pii_redaction_blanking(text, answer) ==
    IF ~PiiCallsDetector(text)
    THEN [success |-> TRUE, text |-> text, redacted |-> FALSE]
    ELSE IF answer.kind # "entities"
    THEN [success |-> TRUE, text |-> <<>>, redacted |-> FALSE]
    ELSE IF answer.entities = <<>>
    THEN [success |-> TRUE, text |-> text, redacted |-> FALSE]
    ELSE LET done == RedactAll(SortDesc(answer.entities), [text |-> text, count |-> 0])
         IN IF done.count > 0
            THEN [success |-> TRUE, text |-> done.text, redacted |-> TRUE]
            ELSE [success |-> TRUE, text |-> text, redacted |-> FALSE]

apply_pii_redaction_to_text(text, answer) ==
    IF ~PiiCallsDetector(text)
    THEN [success |-> TRUE, text |-> text, redacted |-> FALSE]
    ELSE IF answer.kind # "entities"
    THEN [success |-> TRUE, text |-> text, redacted |-> FALSE]
    ELSE IF answer.entities = <<>>
    THEN [success |-> TRUE, text |-> text, redacted |-> FALSE]
    ELSE LET done == RedactAll(SortDesc(answer.entities), [text |-> text, count |-> 0])
         IN IF done.count > 0
            THEN [success |-> TRUE, text |-> done.text, redacted |-> TRUE]
            ELSE [success |-> TRUE, text |-> text, redacted |-> FALSE]

\* The answers the detector can give for a text: nothing found, the name at
\* the head of TextB found with high or with low confidence, or a failed call.
DetectorAnswers(text) ==
    {[kind |-> "entities", entities |-> <<>>],
     [kind |-> "client_error", entities |-> <<>>],
     [kind |-> "error", entities |-> <<>>]}
    \cup
    {[kind |-> "entities", entities |-> <<Entity(score, 0, Len(PersonName))>>]
        : score \in IF StartsWith(text, PersonName)
                    THEN {95, 40} ELSE {}}

(***************************************************************************)
(* Text extraction.  The service answers the immediate call with the text  *)
(* of the document or with an error code; the job-based path is taken on   *)
(* UnsupportedDocumentException and ends in text, a failed job or timeout. *)
(***************************************************************************)
TextractAnswers ==
    {"text", "InvalidS3ObjectException", "AccessDenied", "ThrottlingException",
     "connection", "job_text", "job_failed", "job_timeout"}

extract_text_from_s3_pdf(s3_key, object, answer) ==
    IF ~LowerEndsWith(s3_key, PdfSuffix)
    THEN [success |-> FALSE,
          error |-> "Unsupported file format. Only PDF files are supported."]
    ELSE IF object = NoObject
    THEN [success |-> FALSE, error |-> "File not found in S3."]
    ELSE IF answer \in {"text", "job_text"}
    THEN IF Strip(DocText(object)) = <<>>
         THEN [success |-> FALSE,
               error |-> "No text could be extracted from the PDF. The file may be corrupted or password-protected."]
         ELSE [success |-> TRUE, text |-> DocText(object)]
    ELSE IF answer = "InvalidS3ObjectException"
    THEN [success |-> FALSE,
          error |-> "Invalid PDF file. The file may be corrupted or password-protected."]
    ELSE IF answer = "AccessDenied"
    THEN [success |-> FALSE, error |-> "Access denied to S3 object or Textract service."]
    ELSE IF answer = "ThrottlingException"
    THEN [success |-> FALSE, error |-> "PDF processing failed due to service error."]
    ELSE IF answer = "connection"
    THEN [success |-> FALSE, error |-> "PDF processing failed due to connection error."]
    ELSE IF answer = "job_failed"
    THEN [success |-> FALSE, error |-> "Textract job failed: Unknown error"]
    ELSE [success |-> FALSE,
          error |-> "Textract job timed out after 300 seconds. Large PDFs may take longer to process."]

(***************************************************************************)
(* The analysis engine.                                                    *)
(***************************************************************************)
SampleAnalysis ==
    [compatibility_score |-> 75,
     missing_keywords |-> <<"aws", "docker">>,
     missing_skills |-> [technical |-> <<"terraform">>, soft |-> <<"mentoring">>],
     suggestions |-> <<"s1", "s2", "s3">>,
     strengths |-> <<"python">>,
     areas_for_improvement |-> <<"cloud">>]

BedrockAnswers ==
    {"analysis", "AccessDeniedException", "ThrottlingException", "no_json"}

analyze_resume_vs_job_description(resume_text, job_description, answer) ==
    IF Strip(resume_text) = <<>>
    THEN [success |-> FALSE, error |-> "Resume text is empty or invalid"]
    ELSE IF Strip(job_description) = <<>>
    THEN [success |-> FALSE, error |-> "Job description is empty or invalid"]
    ELSE IF answer = "analysis"
    THEN [success |-> TRUE, analysis |-> SampleAnalysis]
    ELSE IF answer = "AccessDeniedException"
    THEN [success |-> FALSE,
          error |-> "Access denied to Bedrock service. Check IAM permissions."]
    ELSE IF answer = "ThrottlingException"
    THEN [success |-> FALSE, error |-> "Analysis service is busy. Please try again later."]
    ELSE [success |-> FALSE, error |-> "No valid JSON found in AI response"]

\* the analysis_summary block of a success response
AnalysisSummary(analysis_data) ==
    [compatibility_score |-> analysis_data.compatibility_score,
     missing_keywords_count |-> Len(analysis_data.missing_keywords),
     suggestions_count |-> Len(analysis_data.suggestions),
     strengths_count |-> Len(analysis_data.strengths)]

(***************************************************************************)
(* The report builder: two artifacts are persisted, then two links minted. *)
(* An answer gives the outcome of each of the four storage calls; the links *)
(* are minted only after both artifacts are stored, so an answer in which a *)
(* put fails says nothing about the links.                                 *)
(***************************************************************************)
NoBucket == <<>>

StorageAnswers ==
    {a \in [put_markdown : BOOLEAN, put_html : BOOLEAN,
            url_markdown : BOOLEAN, url_html : BOOLEAN] :
        (~a.put_markdown \/ ~a.put_html) => (a.url_markdown /\ a.url_html)}

ReportKey(report_id, format) == <<"reports", report_id, format>>

\* put_object needs a bucket name
Persisted(bucket_name, ok) == ok /\ bucket_name # NoBucket

\* the artifacts a build leaves in the bucket
ArtifactsWritten(bucket_name, report_id, answer) ==
    {ReportKey(report_id, "md") : x \in {a \in {1} : Persisted(bucket_name, answer.put_markdown)}}
    \cup
    {ReportKey(report_id, "html") : x \in {a \in {1} : Persisted(bucket_name, answer.put_html)}}

\* a build that is content with the markdown artifact and its link
create_complete_report_package_partial(bucket_name, report_id, answer) ==
    IF ~Persisted(bucket_name, answer.put_markdown)
    THEN [success |-> FALSE, error |-> "Failed to store reports in S3"]
    ELSE IF ~answer.url_markdown
    THEN [success |-> FALSE, error |-> "Failed to generate download URLs"]
    ELSE [success |-> TRUE,
          report_id |-> report_id,
          reports |-> [markdown |-> [s3_key |-> ReportKey(report_id, "md"),
                                     download_url |-> <<"url", report_id, "md">>],
                       html |-> [s3_key |-> ReportKey(report_id, "html"),
                                 download_url |-> <<"url", report_id, "html">>]]]

create_complete_report_package(bucket_name, report_id, answer) ==
    IF ~Persisted(bucket_name, answer.put_markdown) \/ ~Persisted(bucket_name, answer.put_html)
    THEN [success |-> FALSE, error |-> "Failed to store reports in S3"]
    ELSE IF ~answer.url_markdown \/ ~answer.url_html
    THEN [success |-> FALSE, error |-> "Failed to generate download URLs"]
    ELSE [success |-> TRUE,
          report_id |-> report_id,
          reports |-> [markdown |-> [s3_key |-> ReportKey(report_id, "md"),
                                     download_url |-> <<"url", report_id, "md">>],
                       html |-> [s3_key |-> ReportKey(report_id, "html"),
                                 download_url |-> <<"url", report_id, "html">>]]]

(***************************************************************************)
(* The deduplication layer.                                                *)
(***************************************************************************)
\* a digest function that hashes whatever it is given
calculate_file_hash_of_anything(file_content) ==
    [raised |-> "", hash_value |-> Sha256(file_content)]

\* calculate_file_hash: the digest of the bytes; ValueError for None (written
\* NoObject here) and for empty bytes
calculate_file_hash(file_content) ==
    IF file_content = NoObject \/ file_content = <<>>
    THEN [raised |-> "ValueError", hash_value |-> NoHash]
    ELSE [raised |-> "", hash_value |-> Sha256(file_content)]

\* calculate_s3_file_hash: the digest of the object, or None when the object
\* cannot be read or is empty
calculate_s3_file_hash(object, read_ok) ==
    IF ~read_ok \/ object = NoObject
    THEN NoHash
    ELSE LET hashed == calculate_file_hash(object) IN
         IF hashed.raised # "" THEN NoHash ELSE hashed.hash_value

DynamoAnswers == {"ok", "client_error", "error"}

NoItem == [found |-> FALSE]

\* a lookup that answers from the table even when the call failed
get_resume_cache_unguarded(table, file_hash, answer) ==
    IF file_hash \in DOMAIN table
    THEN [found |-> TRUE,
          file_hash |-> table[file_hash].file_hash,
          extracted_text |-> table[file_hash].extracted_text,
          original_filename |-> table[file_hash].original_filename,
          ttl |-> table[file_hash].ttl]
    ELSE [found |-> FALSE]

\* DynamoDBClient.get_resume_cache: the stored item whatever its ttl, None when
\* there is none or when the call fails
get_resume_cache(table, file_hash, answer) ==
    IF answer = "ok" /\ file_hash \in DOMAIN table
    THEN [found |-> TRUE,
          file_hash |-> table[file_hash].file_hash,
          extracted_text |-> table[file_hash].extracted_text,
          original_filename |-> table[file_hash].original_filename,
          ttl |-> table[file_hash].ttl]
    ELSE NoItem

\* a cache write that reports success and writes nothing
put_resume_cache_dropped(table, file_hash, extracted_text, original_filename, clock, answer) ==
    table

\* a cache write keyed by the fingerprint together with the filename
put_resume_cache_by_name(table, file_hash, extracted_text, original_filename, clock, answer) ==
    IF answer = "ok"
    THEN [h \in DOMAIN table \cup {file_hash \o original_filename} |->
             IF h = file_hash \o original_filename
             THEN [file_hash |-> file_hash,
                   extracted_text |-> extracted_text,
                   original_filename |-> original_filename,
                   ttl |-> clock + TTL_HOURS]
             ELSE table[h]]
    ELSE table

\* DynamoDBClient.put_resume_cache: the table after the call
put_resume_cache(table, file_hash, extracted_text, original_filename, clock, answer) ==
    IF answer = "ok"
    THEN [h \in DOMAIN table \cup {file_hash} |->
             IF h = file_hash
             THEN [file_hash |-> file_hash,
                   extracted_text |-> extracted_text,
                   original_filename |-> original_filename,
                   ttl |-> clock + TTL_HOURS]
             ELSE table[h]]
    ELSE table

\* DeduplicationService.store_processed_file: True when the item was written
store_processed_file(answer) == answer = "ok"

\* DeduplicationService.check_file_deduplication, after the hash is known
check_file_deduplication(table, file_hash, answer) ==
    IF file_hash = NoHash
    THEN [is_duplicate |-> FALSE, file_hash |-> NoHash, cached_data |-> NoItem,
          message |-> "Failed to calculate file hash"]
    ELSE LET cached_data == get_resume_cache(table, file_hash, answer) IN
         IF cached_data.found
         THEN [is_duplicate |-> TRUE, file_hash |-> file_hash, cached_data |-> cached_data,
               message |-> "Resume already processed - using existing data"]
         ELSE [is_duplicate |-> FALSE, file_hash |-> file_hash, cached_data |-> NoItem,
               message |-> "File is unique - proceeding with processing"]

(***************************************************************************)
(* Events.                                                                 *)
(***************************************************************************)
Ellipsis == <<DOT, DOT, DOT>>
UnknownHash == <<117, 110, 107, 110, 111, 119, 110>>

S3Record(key) == [s3 |-> [bucket |-> BucketName, key |-> key]]

CompletePipelineEvents ==
    {[bucket_name |-> Str(BucketName), s3_key |-> Str(k), job_description |-> Str(JobDesc)]
        : k \in Keys}
    \cup
    {[bucket_name |-> Str(BucketName), s3_key |-> Str(KeyA), job_description |-> Str(BlankText)],
     [bucket_name |-> Str(BucketName), s3_key |-> Str(KeyA), job_description |-> NumberValue],
     [bucket_name |-> Str(BucketName), s3_key |-> NumberValue, job_description |-> Str(JobDesc)]}

StorageEvents ==
    {[Records |-> List(<<S3Record(KeyA), S3Record(KeyB)>>)],
     [Records |-> List(<<[eventName |-> "ObjectCreated:Put"]>>)],
     [Records |-> NumberValue]}

DirectExtractionEvents ==
    {[bucket_name |-> Str(BucketName), s3_key |-> Str(KeyB)]}

AnalysisOnlyEvents ==
    {[resume_text |-> Str(ResumeText), job_description |-> Str(JobDesc)],
     [resume_text |-> Str(ResumeText), job_description |-> Str(JobDesc),
      reports_bucket |-> Str(RealReportsBucket)],
     [resume_text |-> Str(ResumeText), job_description |-> Str(JobDesc),
      reports_bucket |-> Str(LocalBucket)],
     [resume_text |-> Str(BlankText), job_description |-> Str(JobDesc)]}

MalformedEvents ==
    {[other |-> Str(JobDesc)], [json_number |-> TRUE]}

\* The form as a browser sends it: each part after a boundary line, a header
\* block, a blank line, the content and a line end; the closing boundary last.
FormBoundary == BoundaryOf(MultipartType)

FilePart(bytes) == [name |-> <<114, 101, 115, 117, 109, 101>>, filename |-> UploadName, content |-> bytes]
TextPart(text) == [name |-> <<106, 111, 98, 68, 101, 115, 99, 114, 105, 112, 116, 105, 111, 110>>, content |-> text]

PartHeaders(part) ==
    <<67, 111, 110, 116, 101, 110, 116, 45, 68, 105, 115, 112, 111, 115, 105, 116, 105, 111, 110, 58, 32, 102, 111, 114, 109, 45, 100, 97, 116, 97, 59, 32, 110, 97, 109, 101, 61>> \o QUOTE \o part.name \o QUOTE
    \o (IF Has(part, "filename")
        THEN <<59, 32>> \o FilenameAttribute \o part.filename \o QUOTE \o CRLF
             \o <<67, 111, 110, 116, 101, 110, 116, 45, 84, 121, 112, 101, 58, 32, 97, 112, 112, 108, 105, 99, 97, 116, 105, 111, 110, 47, 112, 100, 102>>
        ELSE <<>>)

RECURSIVE EncodeParts(_)
EncodeParts(parts) ==
    IF parts = <<>> THEN TwoDashes \o FormBoundary \o TwoDashes \o CRLF
    ELSE TwoDashes \o FormBoundary \o CRLF
         \o PartHeaders(Head(parts)) \o BlankLineCRLF
         \o Head(parts).content \o CRLF
         \o EncodeParts(Tail(parts))

HttpEvent(method, path, content_type, body) ==
    [httpMethod |-> method, path |-> path,
     headers |-> [content_type |-> content_type], body |-> body]

Multipart(parts) == [raw |-> EncodeParts(parts)]
NoBody == [raw |-> <<>>]
UndecodableBody == [undecodable |-> TRUE]

UploadEvents ==
    {HttpEvent("POST", "/analyze", MultipartType,
              Multipart(<<FilePart(f), TextPart(LongJobDesc)>>))
        : f \in {FileA, FileB}}
    \cup
    {HttpEvent("POST", "/analyze", MultipartType,
               Multipart(<<FilePart(FileA), TextPart(ShortJobDesc)>>)),
     HttpEvent("POST", "/analyze", JsonType, NoBody)}

EnhanceBody(resume_text) ==
    [json |-> [originalResumeText |-> resume_text, jobDescription |-> JobDesc]]

OtherHttpEvents ==
    {HttpEvent("OPTIONS", "/analyze", JsonType, NoBody),
     HttpEvent("OPTIONS", "/analyze", MultipartType, UndecodableBody),
     [requestContext |-> [http |-> [method |-> "OPTIONS", path |-> "/enhance"]]],
     HttpEvent("GET", "/health", JsonType, NoBody),
     HttpEvent("POST", "/enhance", JsonType, EnhanceBody(ResumeText)),
     HttpEvent("POST", "/enhance", JsonType, EnhanceBody(BlankText))}

Events ==
    CompletePipelineEvents \cup StorageEvents \cup DirectExtractionEvents
    \cup AnalysisOnlyEvents \cup MalformedEvents \cup UploadEvents \cup OtherHttpEvents

(***************************************************************************)
(* The forms of the web upload: a form built from a file, a job            *)
(* description and the names of the two fields, a form that lacks a part,  *)
(* and requests under another content type.                                *)
(***************************************************************************)
FormBytes == {65, 10, 45}

\* the files a form carries: every sequence of one or two of the bytes
FormFiles ==
    {<<a>> : a \in FormBytes} \cup {<<a, b>> : a \in FormBytes, b \in FormBytes}

\* job descriptions around the floor: a run of letters one short of the
\* floor or at the floor, bare or with a character before or after it
FormTexts ==
    {before \o Repeat(106, n) \o after :
        before \in {<<>>, <<SPACE>>},
        n \in {MIN_JOB_DESCRIPTION - 1, MIN_JOB_DESCRIPTION},
        after \in {<<>>, <<SPACE>>, <<45>>, <<106, 10>>}}
    \cup {<<>>, BlankText}

NamedFile(name, bytes) == [name |-> name, filename |-> UploadName, content |-> bytes]
NamedText(name, text) == [name |-> name, content |-> text]

\* the part lists of the forms: both parts around every file and text, both
\* parts under each pair of field names, and forms that lack a part
FormPartLists ==
    {<<NamedFile(FilePart(<<>>).name, f), NamedText(TextPart(<<>>).name, t)>> :
        f \in FormFiles, t \in FormTexts}
    \cup
    {<<NamedFile(fn, f), NamedText(tn, LongJobDesc)>> :
        fn \in FileFieldNames, f \in {FileA, FileB}, tn \in TextFieldNames}
    \cup
    {<<>>, <<FilePart(<<65>>)>>, <<TextPart(LongJobDesc)>>,
     <<FilePart(<<>>), TextPart(LongJobDesc)>>,
     <<TextPart(LongJobDesc), FilePart(<<65>>)>>}

\* each form with the parts that went into it
FormCases ==
    {[event |-> HttpEvent("POST", "/analyze", MultipartType, Multipart(parts)),
      parts |-> parts] : parts \in FormPartLists}

FormEvents ==
    {case.event : case \in FormCases}
    \cup
    {HttpEvent("POST", "/analyze", content_type, body) :
        content_type \in {JsonType, MultipartNoBoundary, MultipartType},
        body \in {NoBody, UndecodableBody,
                  Multipart(<<FilePart(<<65>>), TextPart(LongJobDesc)>>)}}

\* the requests that reach the form parser, each with what the parser makes
\* of it
\* a document other than FileA whose digest begins with the same HASH_PREFIX
\* characters as FileA's
TwinOfFileA == <<1, 1>>
OtherUploadName == <<98, 46, 112, 100, 102>>

\* uploads of three documents, each under two filenames
StoredUploadEvents ==
    {HttpEvent("POST", "/analyze", MultipartType,
               Multipart(<<[name |-> FilePart(<<>>).name, filename |-> original_filename,
                            content |-> f],
                           TextPart(LongJobDesc)>>))
        : original_filename \in {UploadName, OtherUploadName},
          f \in {FileA, FileB, TwinOfFileA}}

UploadRequests ==
    {event \in UploadEvents \cup FormEvents \cup StoredUploadEvents :
        event.httpMethod = "POST" /\ event.path = "/analyze"}

ParsedForm == [event \in UploadRequests |-> parse_multipart_form_data(event)]

(***************************************************************************)
(* The state of an invocation.                                             *)
(***************************************************************************)
Slots == {1, 2}

NoEvent == [none |-> TRUE]
NoAnalysis == [none |-> TRUE]

\* the analysis engine before it is called
NoReply == [none |-> TRUE]

IdleBedrock == [pc |-> "idle", reply |-> NoReply, result |-> NoAnalysis]

\* the extraction client before it is called
NoResult == [none |-> TRUE]

IdleTextract ==
    [pc |-> "idle", s3_key |-> <<>>, calls |-> <<>>, immediate |-> NoResult,
     polls |-> 0, elapsed_time |-> 0, job_status |-> "", pages |-> 0,
     text_blocks |-> <<>>, result |-> NoResult]

\* the report builder before it is called
IdleReporter ==
    [pc |-> "idle", bucket_name |-> <<>>, markdown_storage |-> NoResult,
     html_storage |-> NoResult, markdown_url |-> NoResult, html_url |-> NoResult,
     stored |-> {}, result |-> NoResult]

\* the report renderer before it is called
IdleRenderer ==
    [pc |-> "idle", analysis_data |-> NoAnalysis,
     markdown_content |-> <<>>, html_content |-> <<>>]

\* the scrubber before it is called
NoAnswer == [kind |-> "none", entities |-> <<>>]

IdleRedaction ==
    [pc |-> "idle", text |-> <<>>, answer |-> NoAnswer,
     result |-> [success |-> FALSE, text |-> <<>>, redacted |-> FALSE]]

InitLoc ==
    [bucket_name |-> <<>>, s3_key |-> <<>>, job_description |-> <<>>,
     reports_bucket |-> <<>>, resume_filename |-> <<>>, job_title |-> <<>>,
     file_hash |-> NoHash, is_duplicate |-> FALSE, message |-> "",
     extracted_text |-> <<>>, pii_redacted |-> FALSE, stored |-> FALSE,
     processing_status |-> "", analysis |-> NoAnalysis,
     pdf_content |-> <<>>, report_id |-> 0, cached_until |-> 0]

InternalError == <<"Internal server error during processing">>

\* the outcome of the code that runs before the first external call
Done(response) == [pc |-> "done", loc |-> InitLoc, resp |-> response]
Go(stage, locals) == [pc |-> stage, loc |-> locals, resp |-> NoResponse]

\* event.get(name, default), for a string field
GetOr(event, name, default) == IF Has(event, name) THEN event[name].val ELSE default

\* os.environ.get("REPORTS_BUCKET", default)
EnvReportsBucket(cfg, default) ==
    IF cfg.reports_bucket = NoBucket THEN default ELSE cfg.reports_bucket

\* handle_complete_pipeline, up to the deduplication check
CompletePipelineStart(event, cfg, n) ==
    IF ~IsStr(event.s3_key)
    THEN Done(create_error_response(500, <<"Failed to complete processing pipeline">>))
    ELSE Go("cp_hash",
            [InitLoc EXCEPT
                !.bucket_name = event.bucket_name.val,
                !.s3_key = event.s3_key.val,
                !.job_description = event.job_description.val,
                !.reports_bucket =
                    GetOr(event, "reports_bucket",
                          EnvReportsBucket(cfg, event.bucket_name.val)),
                !.resume_filename =
                    GetOr(event, "resume_filename", LastSegment(event.s3_key.val)),
                !.job_title = GetOr(event, "job_title", DefaultJobTitle),
                !.report_id = n])

\* S3Handler.handle_s3_upload_event: the locator of the first record
\* a reading of the notification that takes its last record
handle_s3_upload_event_last_record(event) ==
    IF event.Records.ty # "list"
    THEN [success |-> FALSE, error |-> <<"Failed to process S3 upload event">>]
    ELSE IF ~Has(event.Records.val[Len(event.Records.val)], "s3")
    THEN [success |-> FALSE, error |-> <<"Invalid event format - no S3 information found">>]
    ELSE [success |-> TRUE,
          bucket_name |-> event.Records.val[Len(event.Records.val)].s3.bucket,
          s3_key |-> event.Records.val[Len(event.Records.val)].s3.key]


handle_s3_upload_event(event) ==
    IF event.Records.ty # "list"
    THEN [success |-> FALSE, error |-> <<"Failed to process S3 upload event">>]
    ELSE IF ~Has(event.Records.val[1], "s3")
    THEN [success |-> FALSE, error |-> <<"Invalid event format - no S3 information found">>]
    ELSE [success |-> TRUE,
          bucket_name |-> event.Records.val[1].s3.bucket,
          s3_key |-> event.Records.val[1].s3.key]

\* handle_s3_upload, up to the extraction
StorageEventStart(event) ==
    LET s3_result == handle_s3_upload_event(event) IN
    IF ~s3_result.success
    THEN Done(create_error_response(400, s3_result.error))
    ELSE Go("s3_extract",
            [InitLoc EXCEPT !.bucket_name = s3_result.bucket_name,
                            !.s3_key = s3_result.s3_key])

\* handle_direct_invocation, up to the extraction
DirectExtractionStart(event) ==
    Go("di_extract",
       [InitLoc EXCEPT !.bucket_name = event.bucket_name.val,
                       !.s3_key = event.s3_key.val])

\* handle_complete_analysis, up to the analysis
AnalysisOnlyStart(event, cfg, n) ==
    Go("ao_analyze",
       [InitLoc EXCEPT
           !.extracted_text = event.resume_text.val,
           !.job_description = event.job_description.val,
           !.reports_bucket =
               GetOr(event, "reports_bucket", EnvReportsBucket(cfg, PlaceholderBucket)),
           !.resume_filename = GetOr(event, "resume_filename", DefaultResumeName),
           !.job_title = GetOr(event, "job_title", DefaultJobTitle),
           !.report_id = n])

\* the endpoint constructing its clients before it looks at the form
AnalyzeEndpointStart_clients_first(event, cfg, n) ==
    LET form_data == ParsedForm[event] IN
    IF ~cfg.cache_table
    THEN Done(create_cors_response(500, [error |-> <<"Analysis processing failed">>]))
    ELSE IF ~form_data.success
    THEN Done(create_cors_response(400, [error |-> form_data.error]))
    ELSE Go("web_lookup",
            [InitLoc EXCEPT
                !.pdf_content = form_data.pdf_content,
                !.job_description = form_data.job_description,
                !.resume_filename = form_data.original_filename,
                !.file_hash = Sha256(form_data.pdf_content),
                !.bucket_name = BucketName,
                !.reports_bucket = cfg.reports_bucket,
                !.job_title = WebJobTitle,
                !.report_id = n])


\* handle_analyze_endpoint, up to the cache lookup
AnalyzeEndpointStart(event, cfg, n) ==
    LET form_data == ParsedForm[event] IN
    IF ~form_data.success
    THEN Done(create_cors_response(400, [error |-> form_data.error]))
    ELSE IF ~cfg.cache_table
    THEN Done(create_cors_response(500, [error |-> <<"Analysis processing failed">>]))
    ELSE Go("web_lookup",
            [InitLoc EXCEPT
                !.pdf_content = form_data.pdf_content,
                !.job_description = form_data.job_description,
                !.resume_filename = form_data.original_filename,
                !.file_hash = Sha256(form_data.pdf_content),
                !.bucket_name = BucketName,
                !.reports_bucket = cfg.reports_bucket,
                !.job_title = WebJobTitle,
                !.report_id = n])

\* handle_enhance_endpoint, up to the generator call
EnhanceEndpointStart(event) ==
    IF ~Has(event.body, "json")
    THEN Done(create_cors_response(400, [error |-> <<"Invalid JSON in request body">>]))
    ELSE IF Strip(event.body.json.originalResumeText) = <<>>
    THEN Done(create_cors_response(400, [error |-> <<"Original resume text is required">>]))
    ELSE IF Strip(event.body.json.jobDescription) = <<>>
    THEN Done(create_cors_response(400, [error |-> <<"Job description is required">>]))
    ELSE Go("enh_generate",
            [InitLoc EXCEPT !.extracted_text = event.body.json.originalResumeText,
                            !.job_description = event.body.json.jobDescription])

\* a router that knows no preflight
handle_api_gateway_request_without_preflight(event, cfg, n) ==
    LET http_method == HttpMethodOf(event)
        path == HttpPathOf(event)
    IN IF http_method = "POST" /\ path = "/analyze"
       THEN AnalyzeEndpointStart(event, cfg, n)
       ELSE IF http_method = "POST" /\ path = "/enhance"
       THEN EnhanceEndpointStart(event)
       ELSE Done(create_cors_response(404, [error |-> <<"Endpoint not found">>]))

handle_api_gateway_request(event, cfg, n) ==
    LET http_method == HttpMethodOf(event)
        path == HttpPathOf(event)
    IN IF http_method = "OPTIONS"
       THEN Done(create_cors_response(200, [message |-> "CORS preflight"]))
       ELSE IF http_method = "POST" /\ path = "/analyze"
       THEN AnalyzeEndpointStart(event, cfg, n)
       ELSE IF http_method = "POST" /\ path = "/enhance"
       THEN EnhanceEndpointStart(event)
       ELSE Done(create_cors_response(404, [error |-> <<"Endpoint not found">>]))

\* DynamoDBClient.__init__ raises when RESUME_CACHE_TABLE is not set
ClientsConstructed(cfg) == cfg.cache_table

\* what the runtime reports when an exception leaves the handler
Unhandled == [errorType |-> "Exception"]

\* the handler without its outer try/except
lambda_handler_unguarded(event, cfg, n) ==
    IF ~IsContainer(event)
    THEN Done(Unhandled)
    ELSE IF is_api_gateway_request(event)
    THEN handle_api_gateway_request(event, cfg, n)
    ELSE LET validation_result == validate_input(event) IN
         IF ~validation_result.valid
         THEN Done(create_error_response(400, validation_result.error))
         ELSE IF ~ClientsConstructed(cfg)
         THEN Done(Unhandled)
         ELSE IF validation_result.event_type = "complete_pipeline"
         THEN CompletePipelineStart(event, cfg, n)
         ELSE IF validation_result.event_type = "s3_upload"
         THEN StorageEventStart(event)
         ELSE IF validation_result.event_type = "direct_extraction"
         THEN DirectExtractionStart(event)
         ELSE AnalysisOnlyStart(event, cfg, n)

\* lambda_handler, up to the first external call of the handler it routes to
lambda_handler(event, cfg, n) ==
    IF ~IsContainer(event)
    THEN Done(create_error_response(500, InternalError))
    ELSE IF is_api_gateway_request(event)
    THEN handle_api_gateway_request(event, cfg, n)
    ELSE LET validation_result == validate_input(event) IN
         IF ~validation_result.valid
         THEN Done(create_error_response(400, validation_result.error))
         ELSE IF ~ClientsConstructed(cfg)
         THEN Done(create_error_response(500, InternalError))
         ELSE IF validation_result.event_type = "complete_pipeline"
         THEN CompletePipelineStart(event, cfg, n)
         ELSE IF validation_result.event_type = "s3_upload"
         THEN StorageEventStart(event)
         ELSE IF validation_result.event_type = "direct_extraction"
         THEN DirectExtractionStart(event)
         ELSE IF validation_result.event_type = "analysis_only"
         THEN AnalysisOnlyStart(event, cfg, n)
         ELSE Done(create_error_response(400, <<"Unsupported event type">>))

(***************************************************************************)
(* Initial state and the steps of an invocation.                           *)
(***************************************************************************)
Configs ==
    {[cache_table |-> TRUE, reports_bucket |-> RealReportsBucket],
     [cache_table |-> TRUE, reports_bucket |-> NoBucket],
     [cache_table |-> FALSE, reports_bucket |-> RealReportsBucket]}

NoCall ==
    [called |-> FALSE, content |-> <<>>, job_description |-> <<>>, success |-> FALSE,
     status |-> "", text_length |-> 0, cached |-> FALSE, cached_until |-> 0]

Init ==
    /\ cache = <<>>
    /\ objects = InitialObjects
    /\ now = 0
    /\ config \in Configs
    /\ pc = [i \in Slots |-> "idle"]
    /\ req = [i \in Slots |-> NoEvent]
    /\ loc = [i \in Slots |-> InitLoc]
    /\ log = [i \in Slots |-> <<>>]
    /\ resp = [i \in Slots |-> NoResponse]
    /\ started = 0
    /\ last = [i \in Slots |-> NoCall]
    /\ bedrock = IdleBedrock
    /\ redaction = IdleRedaction
    /\ textract = IdleTextract
    /\ reporter = IdleReporter
    /\ renderer = IdleRenderer

ObjectAt(key) == IF key \in DOMAIN objects THEN objects[key] ELSE NoObject

\* whether an event is one the complete pipeline handles
IsCompletePipelineEvent(event) ==
    /\ IsContainer(event)
    /\ ~is_api_gateway_request(event)
    /\ validate_input(event).valid
    /\ validate_input(event).event_type = "complete_pipeline"

IsSuccess(response) ==
    /\ Has(response, "body")
    /\ Has(response.body, "success")
    /\ response.body.success

\* what a finished complete-pipeline call did, kept for the next call
Summary(i) ==
    IF pc[i] = "done" /\ IsCompletePipelineEvent(req[i]) /\ loc[i].s3_key # <<>>
    THEN [called |-> TRUE,
          content |-> ObjectAt(loc[i].s3_key),
          job_description |-> loc[i].job_description,
          success |-> IsSuccess(resp[i]),
          status |-> loc[i].processing_status,
          text_length |-> Len(loc[i].extracted_text),
          cached |-> loc[i].stored \/ loc[i].is_duplicate,
          cached_until |-> loc[i].cached_until]
    ELSE NoCall

\* one step of invocation i: the next stage, the locals, the response, the calls made
Step(i, stage, locals, response, calls) ==
    /\ pc' = [pc EXCEPT ![i] = stage]
    /\ loc' = [loc EXCEPT ![i] = locals]
    /\ resp' = [resp EXCEPT ![i] = response]
    /\ log' = [log EXCEPT ![i] = @ \o calls]

Receive(i) ==
    /\ pc[i] \in {"idle", "done"}
    /\ started < MaxRequests
    /\ \E event \in Events :
          LET out == lambda_handler(event, config, started + 1) IN
          /\ req' = [req EXCEPT ![i] = event]
          /\ pc' = [pc EXCEPT ![i] = out.pc]
          /\ loc' = [loc EXCEPT ![i] = out.loc]
          /\ resp' = [resp EXCEPT ![i] = out.resp]
    /\ log' = [log EXCEPT ![i] = <<>>]
    /\ last' = [last EXCEPT ![i] = Summary(i)]
    /\ started' = started + 1
    /\ UNCHANGED <<clients, cache, objects, now, config>>

(***************************************************************************)
(* handle_complete_pipeline                                                *)
(***************************************************************************)
\* the calls apply_pii_redaction_to_text makes
ScrubCalls(text, answer) ==
    IF ~PiiCallsDetector(text) THEN <<"scrub">>
    ELSE IF answer.kind = "entities" THEN <<"scrub", "comprehend">>
    ELSE <<"scrub", "comprehend", "detect.failed">>

\* dedup_result.get("file_hash")[:8] + "..." if dedup_result.get("file_hash") else "unknown"
ShortHash(file_hash) ==
    IF file_hash # NoHash THEN Prefix(file_hash, HASH_PREFIX) \o Ellipsis ELSE UnknownHash

ReportLinks(report_package) ==
    [report_id |-> report_package.report_id,
     markdown |-> report_package.reports.markdown,
     html |-> report_package.reports.html]

CompletePipelineResponse(l, report_package) ==
    create_success_response(
        [pipeline_status |-> "completed",
         processing_steps |->
             [deduplication_check |-> "success",
              text_extraction |-> l.processing_status,
              ai_analysis |-> "success",
              report_generation |-> "success"],
         deduplication |->
             [status |-> l.processing_status,
              message |-> l.message,
              file_hash |-> ShortHash(l.file_hash)],
         input_summary |->
             [resume_filename |-> l.resume_filename,
              job_title |-> l.job_title,
              extracted_text_length |-> Len(l.extracted_text),
              job_description_length |-> Len(l.job_description)],
         analysis_summary |-> AnalysisSummary(l.analysis),
         reports |-> ReportLinks(report_package)])

\* the storage calls a report build makes
ReportCalls(bucket_name, answer) ==
    <<"report", "report.put_markdown", "report.put_html">>
    \o (IF Persisted(bucket_name, answer.put_markdown) /\ Persisted(bucket_name, answer.put_html)
        THEN <<"report.url_markdown", "report.url_html">> ELSE <<>>)
    \o (IF create_complete_report_package(bucket_name, 0, answer).success
        THEN <<>> ELSE <<"report.failed">>)

\* the call of a cache lookup, marked when the call itself failed
LookupCalls(answer) ==
    IF answer = "ok" THEN <<"dynamodb.get_item">> ELSE <<"dynamodb.get_item", "lookup.failed">>

\* the call of a cache write, marked when the call itself failed
StoreCalls(answer) ==
    IF answer = "ok" THEN <<"dynamodb.put_item">> ELSE <<"dynamodb.put_item", "store.failed">>

\* a check that computes the fingerprint and goes on to extraction without
\* looking it up
CP_Hash_without_lookup(i) ==
    /\ pc[i] = "cp_hash"
    /\ \E read_ok \in BOOLEAN :
          LET file_hash == calculate_s3_file_hash(ObjectAt(loc[i].s3_key), read_ok)
              dedup_result == check_file_deduplication(cache, NoHash, "ok")
          IN IF file_hash = NoHash
             THEN Step(i, "cp_extract",
                       [loc[i] EXCEPT !.file_hash = dedup_result.file_hash,
                                      !.is_duplicate = dedup_result.is_duplicate,
                                      !.message = dedup_result.message],
                       NoResponse, <<"s3.get_object", "hash.failed">>)
             ELSE Step(i, "cp_extract",
                       [loc[i] EXCEPT !.file_hash = file_hash,
                                      !.is_duplicate = dedup_result.is_duplicate,
                                      !.message = dedup_result.message],
                       NoResponse, <<"s3.get_object">>)
    /\ UNCHANGED <<clients, cache, objects, now, config, req, started, last>>

CP_Hash(i) ==
    /\ pc[i] = "cp_hash"
    /\ \E read_ok \in BOOLEAN :
          LET file_hash == calculate_s3_file_hash(ObjectAt(loc[i].s3_key), read_ok)
              dedup_result == check_file_deduplication(cache, NoHash, "ok")
          IN IF file_hash = NoHash
             THEN Step(i, "cp_extract",
                       [loc[i] EXCEPT !.file_hash = dedup_result.file_hash,
                                      !.is_duplicate = dedup_result.is_duplicate,
                                      !.message = dedup_result.message],
                       NoResponse, <<"s3.get_object", "hash.failed">>)
             ELSE Step(i, "cp_lookup", [loc[i] EXCEPT !.file_hash = file_hash],
                       NoResponse, <<"s3.get_object">>)
    /\ UNCHANGED <<clients, cache, objects, now, config, req, started, last>>

\* the lookup step with the duplicate branch left out: extraction always follows
CP_LookupReextract(i) ==
    /\ pc[i] = "cp_lookup"
    /\ \E answer \in DynamoAnswers :
          LET dedup_result == check_file_deduplication(cache, loc[i].file_hash, answer) IN
          Step(i, "cp_extract",
               [loc[i] EXCEPT !.file_hash = dedup_result.file_hash,
                              !.is_duplicate = dedup_result.is_duplicate,
                              !.message = dedup_result.message],
               NoResponse, LookupCalls(answer))
    /\ UNCHANGED <<clients, cache, objects, now, config, req, started, last>>

\* a lookup that treats an entry whose expiry time has come as a miss
CP_Lookup_enforcing_expiry(i) ==
    /\ pc[i] = "cp_lookup"
    /\ \E answer \in DynamoAnswers :
          LET live == [h \in {k \in DOMAIN cache : now < cache[k].ttl} |-> cache[h]]
              dedup_result == check_file_deduplication(live, loc[i].file_hash, answer)
              l == [loc[i] EXCEPT !.file_hash = dedup_result.file_hash,
                                  !.is_duplicate = dedup_result.is_duplicate,
                                  !.message = dedup_result.message]
          IN IF dedup_result.is_duplicate
             THEN Step(i, "cp_analyze",
                       [l EXCEPT !.extracted_text = dedup_result.cached_data.extracted_text,
                                 !.processing_status = "deduplicated",
                                 !.cached_until = dedup_result.cached_data.ttl],
                       NoResponse, LookupCalls(answer))
             ELSE Step(i, "cp_extract", l, NoResponse, LookupCalls(answer))
    /\ UNCHANGED <<clients, cache, objects, now, config, req, started, last>>

CP_Lookup(i) ==
    /\ pc[i] = "cp_lookup"
    /\ \E answer \in DynamoAnswers :
          LET dedup_result == check_file_deduplication(cache, loc[i].file_hash, answer)
              l == [loc[i] EXCEPT !.file_hash = dedup_result.file_hash,
                                  !.is_duplicate = dedup_result.is_duplicate,
                                  !.message = dedup_result.message]
          IN IF dedup_result.is_duplicate
             THEN Step(i, "cp_analyze",
                       [l EXCEPT !.extracted_text = dedup_result.cached_data.extracted_text,
                                 !.processing_status = "deduplicated",
                                 !.cached_until = dedup_result.cached_data.ttl],
                       NoResponse, LookupCalls(answer))
             ELSE Step(i, "cp_extract", l, NoResponse, LookupCalls(answer))
    /\ UNCHANGED <<clients, cache, objects, now, config, req, started, last>>

\* the extraction step with the check of its result left out
CP_ExtractUnchecked(i) ==
    /\ pc[i] = "cp_extract"
    /\ \E answer \in TextractAnswers :
          LET extraction_result ==
                  extract_text_from_s3_pdf(loc[i].s3_key, ObjectAt(loc[i].s3_key), answer)
          IN Step(i, "cp_scrub",
                  [loc[i] EXCEPT !.extracted_text =
                      IF extraction_result.success THEN extraction_result.text ELSE <<>>],
                  NoResponse,
                  IF extraction_result.success
                  THEN <<"textract">> ELSE <<"textract", "extract.failed">>)
    /\ UNCHANGED <<clients, cache, objects, now, config, req, started, last>>

CP_Extract(i) ==
    /\ pc[i] = "cp_extract"
    /\ \E answer \in TextractAnswers :
          LET extraction_result ==
                  extract_text_from_s3_pdf(loc[i].s3_key, ObjectAt(loc[i].s3_key), answer)
          IN IF ~extraction_result.success
             THEN Step(i, "done", loc[i],
                       create_error_response(422,
                           <<"Text extraction failed: ", extraction_result.error>>),
                       <<"textract", "extract.failed">>)
             ELSE Step(i, "cp_scrub",
                       [loc[i] EXCEPT !.extracted_text = extraction_result.text],
                       NoResponse, <<"textract">>)
    /\ UNCHANGED <<clients, cache, objects, now, config, req, started, last>>

\* a scrub step that goes on to the cache write whether or not a
\* fingerprint was computed
CP_Scrub_always_storing(i) ==
    /\ pc[i] = "cp_scrub"
    /\ \E answer \in DetectorAnswers(loc[i].extracted_text) :
          LET pii_result == apply_pii_redaction_to_text(loc[i].extracted_text, answer)
              l == [loc[i] EXCEPT
                       !.extracted_text = IF pii_result.success THEN pii_result.text ELSE @,
                       !.pii_redacted = pii_result.redacted]
          IN Step(i, "cp_store", l, NoResponse, ScrubCalls(loc[i].extracted_text, answer))
    /\ UNCHANGED <<clients, cache, objects, now, config, req, started, last>>


CP_Scrub(i) ==
    /\ pc[i] = "cp_scrub"
    /\ \E answer \in DetectorAnswers(loc[i].extracted_text) :
          LET pii_result == apply_pii_redaction_to_text(loc[i].extracted_text, answer)
              l == [loc[i] EXCEPT
                       !.extracted_text = IF pii_result.success THEN pii_result.text ELSE @,
                       !.pii_redacted = pii_result.redacted,
                       !.processing_status =
                           IF loc[i].file_hash # NoHash THEN @ ELSE "processed"]
          IN Step(i, IF loc[i].file_hash # NoHash THEN "cp_store" ELSE "cp_analyze",
                  l, NoResponse, ScrubCalls(loc[i].extracted_text, answer))
    /\ UNCHANGED <<clients, cache, objects, now, config, req, started, last>>

CP_Store(i) ==
    /\ pc[i] = "cp_store"
    /\ \E answer \in DynamoAnswers :
          /\ cache' = put_resume_cache(cache, loc[i].file_hash, loc[i].extracted_text,
                                       loc[i].resume_filename, now, answer)
          /\ Step(i, "cp_analyze",
                  [loc[i] EXCEPT !.stored = store_processed_file(answer),
                                 !.cached_until =
                                     IF store_processed_file(answer) THEN now + TTL_HOURS ELSE @,
                                 !.processing_status = "processed"],
                  NoResponse, StoreCalls(answer))
    /\ UNCHANGED <<clients, objects, now, config, req, started, last>>

\* the analysis step answering with what the pipeline has so far when the
\* analysis fails
CP_AnalyzePartial(i) ==
    /\ pc[i] = "cp_analyze"
    /\ \E answer \in BedrockAnswers :
          LET analysis_result ==
                  analyze_resume_vs_job_description(
                      loc[i].extracted_text, loc[i].job_description, answer)
          IN IF ~analysis_result.success
             THEN Step(i, "done", loc[i],
                       create_success_response(
                           [pipeline_status |-> "partial",
                            processing_steps |->
                                [deduplication_check |-> "success",
                                 text_extraction |-> loc[i].processing_status,
                                 ai_analysis |-> "failed"]]),
                       <<"bedrock", "analyze.failed">>)
             ELSE Step(i, "cp_report",
                       [loc[i] EXCEPT !.analysis = analysis_result.analysis],
                       NoResponse, <<"bedrock">>)
    /\ UNCHANGED <<clients, cache, objects, now, config, req, started, last>>

CP_Analyze(i) ==
    /\ pc[i] = "cp_analyze"
    /\ \E answer \in BedrockAnswers :
          LET analysis_result ==
                  analyze_resume_vs_job_description(
                      loc[i].extracted_text, loc[i].job_description, answer)
          IN IF ~analysis_result.success
             THEN Step(i, "done", loc[i],
                       create_error_response(422,
                           <<"AI analysis failed: ", analysis_result.error>>),
                       <<"bedrock", "analyze.failed">>)
             ELSE Step(i, "cp_report",
                       [loc[i] EXCEPT !.analysis = analysis_result.analysis],
                       NoResponse, <<"bedrock">>)
    /\ UNCHANGED <<clients, cache, objects, now, config, req, started, last>>

\* the report step answering like the analysis-only handler: the analysis
\* is returned although the reports were not stored
CP_ReportDegraded(i) ==
    /\ pc[i] = "cp_report"
    /\ \E answer \in StorageAnswers :
          LET report_package ==
                  create_complete_report_package(loc[i].reports_bucket, loc[i].report_id, answer)
          IN IF ~report_package.success
             THEN Step(i, "done", loc[i],
                       create_success_response(
                           [pipeline_status |-> "completed",
                            analysis_summary |-> AnalysisSummary(loc[i].analysis)]),
                       ReportCalls(loc[i].reports_bucket, answer))
             ELSE Step(i, "done", loc[i],
                       CompletePipelineResponse(loc[i], report_package),
                       ReportCalls(loc[i].reports_bucket, answer))
    /\ UNCHANGED <<clients, cache, objects, now, config, req, started, last>>

CP_Report(i) ==
    /\ pc[i] = "cp_report"
    /\ \E answer \in StorageAnswers :
          LET report_package ==
                  create_complete_report_package(loc[i].reports_bucket, loc[i].report_id, answer)
          IN IF ~report_package.success
             THEN Step(i, "done", loc[i],
                       create_error_response(500,
                           <<"Report generation failed: ", report_package.error>>),
                       ReportCalls(loc[i].reports_bucket, answer))
             ELSE Step(i, "done", loc[i],
                       CompletePipelineResponse(loc[i], report_package),
                       ReportCalls(loc[i].reports_bucket, answer))
    /\ UNCHANGED <<clients, cache, objects, now, config, req, started, last>>

(***************************************************************************)
(* handle_s3_upload and handle_direct_invocation: extraction only          *)
(***************************************************************************)
ExtractionResponse(processing_type, l) ==
    create_success_response(
        [processing_type |-> processing_type,
         bucket_name |-> l.bucket_name,
         s3_key |-> l.s3_key,
         extracted_text |-> l.extracted_text,
         text_length |-> Len(l.extracted_text),
         pii_redacted |-> l.pii_redacted])

\* extraction, then redaction of the text, in one handler without a cache
ExtractOnly(i, processing_type, next_stage) ==
    \E answer \in TextractAnswers :
        LET extraction_result ==
                extract_text_from_s3_pdf(loc[i].s3_key, ObjectAt(loc[i].s3_key), answer)
        IN IF ~extraction_result.success
           THEN Step(i, "done", loc[i],
                     create_error_response(422,
                         <<"Text extraction failed: ", extraction_result.error>>),
                     <<"textract", "extract.failed">>)
           ELSE Step(i, next_stage,
                     [loc[i] EXCEPT !.extracted_text = extraction_result.text],
                     NoResponse, <<"textract">>)

ScrubOnly(i, processing_type) ==
    \E answer \in DetectorAnswers(loc[i].extracted_text) :
        LET pii_result == apply_pii_redaction_to_text(loc[i].extracted_text, answer)
            l == [loc[i] EXCEPT
                     !.extracted_text = IF pii_result.success THEN pii_result.text ELSE @,
                     !.pii_redacted = pii_result.redacted]
        IN Step(i, "done", l, ExtractionResponse(processing_type, l),
                ScrubCalls(loc[i].extracted_text, answer))

S3_Extract(i) ==
    /\ pc[i] = "s3_extract"
    /\ ExtractOnly(i, "s3_upload", "s3_scrub")
    /\ UNCHANGED <<clients, cache, objects, now, config, req, started, last>>

S3_Scrub(i) ==
    /\ pc[i] = "s3_scrub"
    /\ ScrubOnly(i, "s3_upload")
    /\ UNCHANGED <<clients, cache, objects, now, config, req, started, last>>

DI_Extract(i) ==
    /\ pc[i] = "di_extract"
    /\ ExtractOnly(i, "direct_extraction", "di_scrub")
    /\ UNCHANGED <<clients, cache, objects, now, config, req, started, last>>

\* a direct extraction that also writes what it extracted to the cache
DI_Scrub_caching(i) ==
    /\ pc[i] = "di_scrub"
    /\ ScrubOnly(i, "direct_extraction")
    /\ cache' = put_resume_cache(cache, calculate_file_hash(ObjectAt(loc[i].s3_key)).hash_value,
                                 loc[i].extracted_text, LastSegment(loc[i].s3_key), now, "ok")
    /\ UNCHANGED <<clients, objects, now, config, req, started, last>>


DI_Scrub(i) ==
    /\ pc[i] = "di_scrub"
    /\ ScrubOnly(i, "direct_extraction")
    /\ UNCHANGED <<clients, cache, objects, now, config, req, started, last>>

(***************************************************************************)
(* handle_complete_analysis: analysis of text the caller supplies          *)
(***************************************************************************)
\* a check that takes a bucket named local-... for a real one
should_generate_reports_for_local(reports_bucket) ==
    /\ reports_bucket # <<>>
    /\ reports_bucket # PlaceholderBucket


\* reports_bucket and reports_bucket != "ats-buddy-reports"
\*     and not reports_bucket.startswith("local-")
should_generate_reports(reports_bucket) ==
    /\ reports_bucket # <<>>
    /\ reports_bucket # PlaceholderBucket
    /\ ~StartsWith(reports_bucket, LocalPrefix)

LocalReportId(l) == <<"local-", l.resume_filename, "-", l.job_title>>

AnalysisOnlyStored(l, report_package) ==
    create_success_response(
        [processing_type |-> "analysis_only",
         analysis_summary |-> AnalysisSummary(l.analysis),
         reports |-> ReportLinks(report_package)])

AnalysisOnlyFallback(l, error) ==
    create_success_response(
        [processing_type |-> "analysis_only",
         analysis_summary |-> AnalysisSummary(l.analysis),
         reports |->
             [report_id |-> LocalReportId(l),
              timestamp |-> "local-execution",
              message |-> "Analysis completed successfully but reports were not saved to S3",
              error |-> error],
         metadata |-> [execution_mode |-> "local_fallback", s3_available |-> FALSE]])

AnalysisOnlyLocal(l) ==
    create_success_response(
        [processing_type |-> "analysis_only",
         analysis_summary |-> AnalysisSummary(l.analysis),
         reports |->
             [report_id |-> LocalReportId(l),
              timestamp |-> "local-execution",
              message |-> "Analysis completed successfully (local mode - no S3 storage)"],
         metadata |-> [execution_mode |-> "local", s3_available |-> FALSE]])

AO_Analyze(i) ==
    /\ pc[i] = "ao_analyze"
    /\ \E answer \in BedrockAnswers :
          LET analysis_result ==
                  analyze_resume_vs_job_description(
                      loc[i].extracted_text, loc[i].job_description, answer)
              l == [loc[i] EXCEPT !.analysis = analysis_result.analysis]
          IN IF ~analysis_result.success
             THEN Step(i, "done", loc[i],
                       create_error_response(422,
                           <<"AI analysis failed: ", analysis_result.error>>),
                       <<"bedrock", "analyze.failed">>)
             ELSE IF should_generate_reports(loc[i].reports_bucket)
             THEN Step(i, "ao_report", l, NoResponse, <<"bedrock">>)
             ELSE Step(i, "done", l, AnalysisOnlyLocal(l), <<"bedrock">>)
    /\ UNCHANGED <<clients, cache, objects, now, config, req, started, last>>

\* the report step answering like the complete pipeline: a failed build
\* fails the request
AO_ReportTerminal(i) ==
    /\ pc[i] = "ao_report"
    /\ \E answer \in StorageAnswers :
          LET report_package ==
                  create_complete_report_package(loc[i].reports_bucket, loc[i].report_id, answer)
          IN IF report_package.success
             THEN Step(i, "done", loc[i], AnalysisOnlyStored(loc[i], report_package),
                       ReportCalls(loc[i].reports_bucket, answer))
             ELSE Step(i, "done", loc[i],
                       create_error_response(500,
                           <<"Report generation failed: ", report_package.error>>),
                       ReportCalls(loc[i].reports_bucket, answer))
    /\ UNCHANGED <<clients, cache, objects, now, config, req, started, last>>

AO_Report(i) ==
    /\ pc[i] = "ao_report"
    /\ \E answer \in StorageAnswers :
          LET report_package ==
                  create_complete_report_package(loc[i].reports_bucket, loc[i].report_id, answer)
          IN IF report_package.success
             THEN Step(i, "done", loc[i], AnalysisOnlyStored(loc[i], report_package),
                       ReportCalls(loc[i].reports_bucket, answer))
             ELSE Step(i, "done", loc[i], AnalysisOnlyFallback(loc[i], report_package.error),
                       ReportCalls(loc[i].reports_bucket, answer))
    /\ UNCHANGED <<clients, cache, objects, now, config, req, started, last>>

(***************************************************************************)
(* handle_analyze_endpoint: the web upload                                 *)
(***************************************************************************)
CachedPrefix == <<99, 97, 99, 104, 101, 100, 47>>
UploadPrefix == <<119, 101, 98, 45, 117, 112, 108, 111, 97, 100, 115, 47>>

\* f"{folder}/{content_hash[:8]}/{original_filename}"
WebKey(folder, content_hash, original_filename) ==
    folder \o Prefix(content_hash, HASH_PREFIX) \o <<SLASH>> \o original_filename

\* a response that reads the skills lists from the nested missing_skills field
WebResponse_nested_skills(l, report_package) ==
    create_cors_response(200,
        [sessionId |-> Prefix(l.file_hash, HASH_PREFIX),
         resumeFilename |-> l.resume_filename,
         compatibilityScore |-> l.analysis.compatibility_score,
         missingKeywords |-> l.analysis.missing_keywords,
         missingSkills |->
             [technical |-> l.analysis.missing_skills.val.technical,
              soft |-> l.analysis.missing_skills.val.soft],
         suggestions |-> l.analysis.suggestions,
         strengths |-> l.analysis.strengths,
         deduplicationStatus |-> l.processing_status,
         deduplication |->
             [status |-> l.processing_status,
              fileHash |-> Prefix(l.file_hash, HASH_PREFIX) \o Ellipsis,
              originalFilename |-> l.resume_filename],
         enhancementAvailable |-> TRUE,
         originalResumeText |-> l.extracted_text])


WebResponse(l, report_package) ==
    create_cors_response(200,
        [sessionId |-> Prefix(l.file_hash, HASH_PREFIX),
         resumeFilename |-> l.resume_filename,
         compatibilityScore |-> l.analysis.compatibility_score,
         missingKeywords |-> l.analysis.missing_keywords,
         missingSkills |->
             [technical |-> IF Has(l.analysis, "missing_technical_skills")
                            THEN l.analysis.missing_technical_skills ELSE <<>>,
              soft |-> IF Has(l.analysis, "missing_soft_skills")
                       THEN l.analysis.missing_soft_skills ELSE <<>>],
         suggestions |-> l.analysis.suggestions,
         strengths |-> l.analysis.strengths,
         deduplicationStatus |-> l.processing_status,
         deduplication |->
             [status |-> l.processing_status,
              fileHash |-> Prefix(l.file_hash, HASH_PREFIX) \o Ellipsis,
              originalFilename |-> l.resume_filename],
         analysis |->
             [textLength |-> Len(l.extracted_text),
              jobDescriptionLength |-> Len(l.job_description)],
         enhancementAvailable |-> TRUE,
         originalResumeText |-> l.extracted_text]
        @@ (IF report_package.success
            THEN [reports |-> [markdown |-> report_package.reports.markdown.download_url,
                               html |-> report_package.reports.html.download_url]]
            ELSE <<>>))

\* a lookup after which a document found in the cache is uploaded and
\* processed like a new one
WEB_Lookup_reprocessing_hits(i) ==
    /\ pc[i] = "web_lookup"
    /\ \E answer \in DynamoAnswers :
          LET cached_data == get_resume_cache(cache, loc[i].file_hash, answer) IN
          Step(i, "web_upload",
               [loc[i] EXCEPT
                   !.is_duplicate = cached_data.found,
                   !.s3_key = WebKey(UploadPrefix, loc[i].file_hash, loc[i].resume_filename)],
               NoResponse, LookupCalls(answer))
    /\ UNCHANGED <<clients, cache, objects, now, config, req, started, last>>


WEB_Lookup(i) ==
    /\ pc[i] = "web_lookup"
    /\ \E answer \in DynamoAnswers :
          LET cached_data == get_resume_cache(cache, loc[i].file_hash, answer) IN
          IF cached_data.found
          THEN Step(i, "web_analyze",
                    [loc[i] EXCEPT
                        !.extracted_text = cached_data.extracted_text,
                        !.is_duplicate = TRUE,
                        !.processing_status = "deduplicated",
                        !.cached_until = cached_data.ttl,
                        !.s3_key = WebKey(CachedPrefix, loc[i].file_hash, loc[i].resume_filename)],
                    NoResponse, LookupCalls(answer))
          ELSE Step(i, "web_upload",
                    [loc[i] EXCEPT
                        !.s3_key = WebKey(UploadPrefix, loc[i].file_hash, loc[i].resume_filename)],
                    NoResponse, LookupCalls(answer))
    /\ UNCHANGED <<clients, cache, objects, now, config, req, started, last>>

\* S3Handler.upload_file_content: the bucket after the call
upload_file_content(bucket, s3_key, file_content, ok) ==
    IF ok
    THEN [k \in DOMAIN bucket \cup {s3_key} |-> IF k = s3_key THEN file_content ELSE bucket[k]]
    ELSE bucket

UploadAnswers == {"ok", "client_error", "error"}

UploadError(answer) ==
    IF answer = "client_error" THEN "Failed to upload file: <error_code>"
    ELSE "Unexpected error during file upload"

WEB_Upload(i) ==
    /\ pc[i] = "web_upload"
    /\ \E answer \in UploadAnswers :
          /\ objects' = upload_file_content(objects, loc[i].s3_key, loc[i].pdf_content,
                                             answer = "ok")
          /\ IF answer = "ok"
             THEN Step(i, "web_extract", loc[i], NoResponse, <<"s3.put_object">>)
             ELSE Step(i, "done", loc[i],
                       create_cors_response(500,
                           [error |-> <<"Failed to upload PDF: ", UploadError(answer)>>]),
                       <<"s3.put_object", "upload.failed">>)
    /\ UNCHANGED <<clients, cache, now, config, req, started, last>>

WEB_Extract(i) ==
    /\ pc[i] = "web_extract"
    /\ \E answer \in TextractAnswers :
          LET extraction_result ==
                  extract_text_from_s3_pdf(loc[i].s3_key, ObjectAt(loc[i].s3_key), answer)
          IN IF ~extraction_result.success
             THEN Step(i, "done", loc[i],
                       create_cors_response(422,
                           [error |-> <<"Text extraction failed: ", extraction_result.error>>]),
                       <<"textract", "extract.failed">>)
             ELSE Step(i, "web_scrub",
                       [loc[i] EXCEPT !.extracted_text = extraction_result.text],
                       NoResponse, <<"textract">>)
    /\ UNCHANGED <<clients, cache, objects, now, config, req, started, last>>

WEB_Scrub(i) ==
    /\ pc[i] = "web_scrub"
    /\ \E answer \in DetectorAnswers(loc[i].extracted_text) :
          LET pii_result == apply_pii_redaction_to_text(loc[i].extracted_text, answer) IN
          Step(i, "web_store",
               [loc[i] EXCEPT
                   !.extracted_text = IF pii_result.success THEN pii_result.text ELSE @,
                   !.pii_redacted = pii_result.redacted],
               NoResponse, ScrubCalls(loc[i].extracted_text, answer))
    /\ UNCHANGED <<clients, cache, objects, now, config, req, started, last>>

WEB_Store(i) ==
    /\ pc[i] = "web_store"
    /\ \E answer \in DynamoAnswers :
          /\ cache' = put_resume_cache(cache, loc[i].file_hash, loc[i].extracted_text,
                                       loc[i].resume_filename, now, answer)
          /\ Step(i, "web_analyze",
                  [loc[i] EXCEPT !.stored = store_processed_file(answer),
                                 !.cached_until =
                                     IF store_processed_file(answer) THEN now + TTL_HOURS ELSE @,
                                 !.processing_status = "processed"],
                  NoResponse, StoreCalls(answer))
    /\ UNCHANGED <<clients, objects, now, config, req, started, last>>

WEB_Analyze(i) ==
    /\ pc[i] = "web_analyze"
    /\ \E answer \in BedrockAnswers :
          LET analysis_result ==
                  analyze_resume_vs_job_description(
                      loc[i].extracted_text, loc[i].job_description, answer)
          IN IF ~analysis_result.success
             THEN Step(i, "done", loc[i],
                       create_cors_response(422,
                           [error |-> <<"AI analysis failed: ", analysis_result.error>>]),
                       <<"bedrock", "analyze.failed">>)
             ELSE Step(i, "web_report",
                       [loc[i] EXCEPT !.analysis = analysis_result.analysis],
                       NoResponse, <<"bedrock">>)
    /\ UNCHANGED <<clients, cache, objects, now, config, req, started, last>>

WEB_Report(i) ==
    /\ pc[i] = "web_report"
    /\ \E answer \in StorageAnswers :
          LET report_package ==
                  create_complete_report_package(loc[i].reports_bucket, loc[i].report_id, answer)
          IN Step(i, "done", loc[i], WebResponse(loc[i], report_package),
                  ReportCalls(loc[i].reports_bucket, answer))
    /\ UNCHANGED <<clients, cache, objects, now, config, req, started, last>>

(***************************************************************************)
(* handle_enhance_endpoint                                                 *)
(***************************************************************************)
EnhanceAnswers == {"resume", "too_short"}

generate_enhanced_resume(original_resume_text, answer) ==
    IF answer = "resume"
    THEN [success |-> TRUE, enhanced_resume |-> "<resume>",
          original_length |-> Len(original_resume_text)]
    ELSE [success |-> FALSE,
          error |-> "Enhanced resume appears to be too short or incomplete"]

ENH_Generate(i) ==
    /\ pc[i] = "enh_generate"
    /\ \E answer \in EnhanceAnswers :
          LET enhancement_result == generate_enhanced_resume(loc[i].extracted_text, answer) IN
          IF ~enhancement_result.success
          THEN Step(i, "done", loc[i],
                    create_cors_response(422,
                        [error |-> <<"Enhancement failed: ", enhancement_result.error>>]),
                    <<"bedrock">>)
          ELSE Step(i, "done", loc[i],
                    create_cors_response(200,
                        [success |-> TRUE,
                         enhancedResume |-> enhancement_result.enhanced_resume,
                         originalLength |-> enhancement_result.original_length]),
                    <<"bedrock">>)
    /\ UNCHANGED <<clients, cache, objects, now, config, req, started, last>>

(***************************************************************************)
(* The environment: time passes, and the table drops expired items.        *)
(***************************************************************************)
Tick ==
    /\ now + ClockStep <= MaxClock
    /\ now' = now + ClockStep
    /\ UNCHANGED <<clients, cache, objects, config, pc, req, loc, log, resp, started, last>>

Expire ==
    /\ \E h \in DOMAIN cache :
          /\ cache[h].ttl <= now
          /\ cache' = [k \in DOMAIN cache \ {h} |-> cache[k]]
    /\ UNCHANGED <<clients, objects, now, config, pc, req, loc, log, resp, started, last>>

Handle(i) ==
    \/ Receive(i)
    \/ CP_Hash(i) \/ CP_Lookup(i) \/ CP_Extract(i) \/ CP_Scrub(i)
    \/ CP_Store(i) \/ CP_Analyze(i) \/ CP_Report(i)
    \/ S3_Extract(i) \/ S3_Scrub(i) \/ DI_Extract(i) \/ DI_Scrub(i)
    \/ AO_Analyze(i) \/ AO_Report(i)
    \/ WEB_Lookup(i) \/ WEB_Upload(i) \/ WEB_Extract(i) \/ WEB_Scrub(i)
    \/ WEB_Store(i) \/ WEB_Analyze(i) \/ WEB_Report(i)
    \/ ENH_Generate(i)

\* one invocation at a time, each run to completion
Next == Handle(1) \/ Tick \/ Expire

Spec == Init /\ [][Next]_vars

(***************************************************************************)
(* Two invocations at once over the same table.  Both run the complete     *)
(* pipeline on keys of the resumes bucket; the function is deployed with   *)
(* its cache table.  An invocation is far shorter than the life of a cache *)
(* entry, so the clock stands still here.                                  *)
(***************************************************************************)
RaceKeys == {KeyA, KeyB, KeyEmpty}

RaceEvents ==
    {[bucket_name |-> Str(BucketName), s3_key |-> Str(k), job_description |-> Str(JobDesc)]
        : k \in RaceKeys}

RaceInit ==
    /\ Init
    /\ config = [cache_table |-> TRUE, reports_bucket |-> RealReportsBucket]

RaceReceive(i) ==
    /\ pc[i] = "idle"
    /\ \E event \in RaceEvents :
          LET out == lambda_handler(event, config, i) IN
          /\ req' = [req EXCEPT ![i] = event]
          /\ pc' = [pc EXCEPT ![i] = out.pc]
          /\ loc' = [loc EXCEPT ![i] = out.loc]
          /\ resp' = [resp EXCEPT ![i] = out.resp]
    /\ started' = started + 1
    /\ UNCHANGED <<clients, cache, objects, now, config, log, last>>

RaceStep(i) ==
    \/ RaceReceive(i)
    \/ CP_Hash(i) \/ CP_Lookup(i) \/ CP_Extract(i) \/ CP_Scrub(i)
    \/ CP_Store(i) \/ CP_Analyze(i) \/ CP_Report(i)

RaceNext == \E i \in Slots : RaceStep(i)

SpecRace == RaceInit /\ [][RaceNext]_vars

(***************************************************************************)
(* Routing.  One direct invocation receives an event built from any        *)
(* combination of the fields validate_input looks at, each absent, a       *)
(* string, a blank string or a value of another type, and handles it.      *)
(***************************************************************************)
Absent == [ty |-> "absent", val |-> <<>>]

\* the JSON object with the one field, or without it
Field(name, v) == IF v = Absent THEN <<>> ELSE name :> v

TextValues(text) == {Absent, Str(text), Str(BlankText), NumberValue}

RecordsValues == {Absent, List(<<>>), List(<<S3Record(KeyA)>>), NumberValue}

ShapeEvents ==
    {Field("bucket_name", b) @@ Field("s3_key", k) @@ Field("job_description", j)
        @@ Field("resume_text", r) @@ Field("Records", rec) :
        b \in {Absent, Str(BucketName)}, k \in {Absent, Str(KeyA)},
        j \in TextValues(JobDesc), r \in TextValues(ResumeText), rec \in RecordsValues}

RouteReceive(i) ==
    /\ pc[i] = "idle"
    /\ \E event \in ShapeEvents :
          LET out == lambda_handler(event, config, started + 1) IN
          /\ req' = [req EXCEPT ![i] = event]
          /\ pc' = [pc EXCEPT ![i] = out.pc]
          /\ loc' = [loc EXCEPT ![i] = out.loc]
          /\ resp' = [resp EXCEPT ![i] = out.resp]
    /\ started' = started + 1
    /\ UNCHANGED <<clients, cache, objects, now, config, log, last>>

\* the event is received, then handled to completion
RouteNext ==
    \/ RouteReceive(1)
    \/ CP_Hash(1) \/ CP_Lookup(1) \/ CP_Extract(1) \/ CP_Scrub(1)
    \/ CP_Store(1) \/ CP_Analyze(1) \/ CP_Report(1)
    \/ S3_Extract(1) \/ S3_Scrub(1) \/ DI_Extract(1) \/ DI_Scrub(1)
    \/ AO_Analyze(1) \/ AO_Report(1)

SpecRoute == Init /\ [][RouteNext]_vars


(***************************************************************************)
(* The web upload.  One invocation receives POST /analyze with a form      *)
(* built from a file, a job description and the names of the two fields,   *)
(* or with a form that lacks a part, or under another content type, and    *)
(* handles it.                                                             *)
(***************************************************************************)
FormReceive(i) ==
    /\ pc[i] = "idle"
    /\ \E event \in FormEvents :
          LET out == lambda_handler(event, config, started + 1) IN
          /\ req' = [req EXCEPT ![i] = event]
          /\ pc' = [pc EXCEPT ![i] = out.pc]
          /\ loc' = [loc EXCEPT ![i] = out.loc]
          /\ resp' = [resp EXCEPT ![i] = out.resp]
    /\ started' = started + 1
    /\ UNCHANGED <<clients, cache, objects, now, config, log, last>>

\* the form is received, then handled to completion
FormNext ==
    \/ FormReceive(1)
    \/ WEB_Lookup(1) \/ WEB_Upload(1) \/ WEB_Extract(1) \/ WEB_Scrub(1)
    \/ WEB_Store(1) \/ WEB_Analyze(1) \/ WEB_Report(1)

SpecForm == Init /\ [][FormNext]_vars

(***************************************************************************)
(* Uploads in sequence.  One invocation after another receives POST        *)
(* /analyze with one of three documents under one of two filenames.        *)
(***************************************************************************)
UploadReceive(i) ==
    /\ pc[i] \in {"idle", "done"}
    /\ started < MaxRequests
    /\ \E event \in StoredUploadEvents :
          LET out == lambda_handler(event, config, started + 1) IN
          /\ req' = [req EXCEPT ![i] = event]
          /\ pc' = [pc EXCEPT ![i] = out.pc]
          /\ loc' = [loc EXCEPT ![i] = out.loc]
          /\ resp' = [resp EXCEPT ![i] = out.resp]
    /\ log' = [log EXCEPT ![i] = <<>>]
    /\ last' = [last EXCEPT ![i] = Summary(i)]
    /\ started' = started + 1
    /\ UNCHANGED <<clients, cache, objects, now, config>>

UploadNext ==
    \/ UploadReceive(1)
    \/ WEB_Lookup(1) \/ WEB_Upload(1) \/ WEB_Extract(1) \/ WEB_Scrub(1)
    \/ WEB_Store(1) \/ WEB_Analyze(1) \/ WEB_Report(1)

SpecUpload == Init /\ [][UploadNext]_vars

(***************************************************************************)
(* Two uploads at once.  Both invocations receive POST /analyze under the  *)
(* same filename, with one of two documents whose fingerprints begin with  *)
(* the same eight characters, so both write the same key of the resumes    *)
(* bucket.                                                                 *)
(***************************************************************************)
UploadRaceEvents ==
    {HttpEvent("POST", "/analyze", MultipartType,
               Multipart(<<[name |-> FilePart(<<>>).name, filename |-> UploadName,
                            content |-> f],
                           TextPart(LongJobDesc)>>))
        : f \in {FileA, TwinOfFileA}}

UploadRaceReceive(i) ==
    /\ pc[i] = "idle"
    /\ \E event \in UploadRaceEvents :
          LET out == lambda_handler(event, config, i) IN
          /\ req' = [req EXCEPT ![i] = event]
          /\ pc' = [pc EXCEPT ![i] = out.pc]
          /\ loc' = [loc EXCEPT ![i] = out.loc]
          /\ resp' = [resp EXCEPT ![i] = out.resp]
    /\ started' = started + 1
    /\ UNCHANGED <<clients, cache, objects, now, config, log, last>>

UploadRaceStep(i) ==
    \/ UploadRaceReceive(i)
    \/ WEB_Lookup(i) \/ WEB_Upload(i) \/ WEB_Extract(i) \/ WEB_Scrub(i)
    \/ WEB_Store(i) \/ WEB_Analyze(i) \/ WEB_Report(i)

UploadRaceNext == \E i \in Slots : UploadRaceStep(i)

SpecUploadRace == RaceInit /\ [][UploadRaceNext]_vars


(***************************************************************************)
(* The reports bucket.  One invocation after another receives an           *)
(* analysis-only or a complete-pipeline event that names no reports        *)
(* bucket, an empty one, the placeholder, a local- one or a real one,      *)
(* under each deployment.                                                  *)
(***************************************************************************)
ReportsBucketValues == {<<>>, PlaceholderBucket, LocalBucket, RealReportsBucket}

WithReportsBucket(event) ==
    {event} \cup {[reports_bucket |-> Str(b)] @@ event : b \in ReportsBucketValues}

ReportsBucketEvents ==
    WithReportsBucket([resume_text |-> Str(ResumeText), job_description |-> Str(JobDesc)])
    \cup
    WithReportsBucket([bucket_name |-> Str(BucketName), s3_key |-> Str(KeyA),
                       job_description |-> Str(JobDesc)])

BucketReceive(i) ==
    /\ pc[i] \in {"idle", "done"}
    /\ started < MaxRequests
    /\ \E event \in ReportsBucketEvents :
          LET out == lambda_handler(event, config, started + 1) IN
          /\ req' = [req EXCEPT ![i] = event]
          /\ pc' = [pc EXCEPT ![i] = out.pc]
          /\ loc' = [loc EXCEPT ![i] = out.loc]
          /\ resp' = [resp EXCEPT ![i] = out.resp]
    /\ log' = [log EXCEPT ![i] = <<>>]
    /\ last' = [last EXCEPT ![i] = Summary(i)]
    /\ started' = started + 1
    /\ UNCHANGED <<clients, cache, objects, now, config>>

BucketNext ==
    \/ BucketReceive(1)
    \/ CP_Hash(1) \/ CP_Lookup(1) \/ CP_Extract(1) \/ CP_Scrub(1)
    \/ CP_Store(1) \/ CP_Analyze(1) \/ CP_Report(1)
    \/ AO_Analyze(1) \/ AO_Report(1)

SpecBucket == Init /\ [][BucketNext]_vars


(***************************************************************************)
(* The analysis engine on its own: the model is invoked, and its reply is  *)
(* read, checked and repaired.  A reply text is a sequence of segments:    *)
(* prose without braces, a JSON object, or braces around something that is *)
(* not JSON.  A number is a Python int, a float (kept in tenths), one of    *)
(* the floats nan, inf and -inf, or an int beyond the range of a float.     *)
(***************************************************************************)
IntValue(n) == [ty |-> "int", val |-> n]
FloatValue(tenths) == [ty |-> "float", val |-> tenths]
NanValue == [ty |-> "nan", val |-> 0]
InfValue == [ty |-> "inf", val |-> 0]
NegInfValue == [ty |-> "ninf", val |-> 0]
BigIntValue == [ty |-> "bigint", val |-> 0]
BoolValue(b) == [ty |-> "bool", val |-> b]
NullValue == [ty |-> "null", val |-> 0]
DictValue(fields) == [ty |-> "dict", val |-> fields]
\* a string whose characters the code never looks at
Text(s) == [ty |-> "text", val |-> s]

Tenths(v) == IF v.ty = "int" THEN 10 * v.val ELSE v.val

\* a < b between Python numbers: every comparison with nan is false
PyLess(a, b) ==
    IF a.ty = "nan" \/ b.ty = "nan" THEN FALSE
    ELSE IF a.ty = "ninf" THEN b.ty # "ninf"
    ELSE IF b.ty = "inf" THEN a.ty # "inf"
    ELSE IF a.ty = "inf" \/ b.ty = "ninf" THEN FALSE
    ELSE Tenths(a) < Tenths(b)

\* min(a, b) and max(a, b) keep the first argument unless the second beats it
PyMin(a, b) == IF PyLess(b, a) THEN b ELSE a
PyMax(a, b) == IF PyLess(a, b) THEN b ELSE a

Digits == 48..57

RECURSIVE DigitsValue(_)
DigitsValue(s) ==
    IF s = <<>> THEN 0 ELSE 10 * DigitsValue(SubSeq(s, 1, Len(s) - 1)) + (s[Len(s)] - 48)

IsDigits(s) == s # <<>> /\ \A k \in DOMAIN s : s[k] \in Digits

Raised(exception) == [raised |-> exception, value |-> NullValue]
Returned(v) == [raised |-> "", value |-> v]

\* float(s) of a string: surrounding whitespace is dropped; a sign, digits and
\* one digit after a point are read here, and the words nan and inf
FloatOfText(s) ==
    LET t == Strip(s)
        signed == t # <<>> /\ t[1] \in {43, 45}
        negative == t # <<>> /\ t[1] = 45
        body == IF signed THEN Tail(t) ELSE t
        word == [k \in DOMAIN body |-> LowerChar(body[k])]
        whole == IF Len(body) >= 2 /\ body[Len(body) - 1] = DOT
                 THEN SubSeq(body, 1, Len(body) - 2) ELSE body
        tenth == IF Len(body) >= 2 /\ body[Len(body) - 1] = DOT
                 THEN <<body[Len(body)]>> ELSE <<48>>
    IN IF word = <<110, 97, 110>> THEN Returned(NanValue)
       ELSE IF word = <<105, 110, 102>>
       THEN Returned(IF negative THEN NegInfValue ELSE InfValue)
       ELSE IF IsDigits(whole) /\ IsDigits(tenth)
       THEN Returned(FloatValue((IF negative THEN -1 ELSE 1)
                                * (10 * DigitsValue(whole) + DigitsValue(tenth))))
       ELSE Raised("ValueError")

\* float(v)
FloatOf(v) ==
    IF v.ty = "int" THEN Returned(FloatValue(10 * v.val))
    ELSE IF v.ty \in {"float", "nan", "inf", "ninf"} THEN Returned(v)
    ELSE IF v.ty = "bool" THEN Returned(FloatValue(IF v.val THEN 10 ELSE 0))
    ELSE IF v.ty = "bigint" THEN Raised("OverflowError")
    ELSE IF v.ty = "str" THEN FloatOfText(v.val)
    ELSE Raised("TypeError")

DefaultSuggestions ==
    <<Text("Review job description keywords and incorporate relevant ones into your resume"),
      Text("Quantify your achievements with specific metrics and numbers"),
      Text("Tailor your skills section to match the job requirements")>>

MIN_SUGGESTIONS == 3
MAX_SCORE == 100
DEFAULT_SCORE == 50

\* analysis_data with one field set
WithField(analysis_data, name, v) == (name :> v) @@ analysis_data

\* the suggestions become a list, and a list of fewer than three is filled up
\* with the default suggestions and cut to three
RepairSuggestions(analysis_data) ==
    LET listed == IF analysis_data["suggestions"].ty = "list"
                  THEN analysis_data["suggestions"].val ELSE <<>>
    IN WithField(analysis_data, "suggestions",
                 List(IF Len(listed) < MIN_SUGGESTIONS
                      THEN SubSeq(listed \o DefaultSuggestions, 1, MIN_SUGGESTIONS)
                      ELSE listed))

\* the score is left as the model gave it whenever it reads as a number
RepairScore_unclamped(analysis_data, score) ==
    WithField(analysis_data, "compatibility_score", score)

\* the score is brought into 0..100
RepairScore(analysis_data, score) ==
    WithField(analysis_data, "compatibility_score",
              PyMax(IntValue(0), PyMin(IntValue(MAX_SCORE), score)))

\* the optional fields get their defaults
WithOptional(analysis_data) ==
    analysis_data @@ ("strengths" :> List(<<>>)) @@ ("areas_for_improvement" :> List(<<>>))

RequiredFields == <<"missing_keywords", "missing_skills", "suggestions", "compatibility_score">>

Prose == [prose |-> TRUE]
JsonObject(data) == [object |-> data]
BrokenObject == [broken |-> TRUE]

parse_analysis_response(response_text) ==
    LET braced == {k \in DOMAIN response_text : ~Has(response_text[k], "prose")}
    IN IF braced = {}
       THEN [success |-> FALSE, error |-> "No valid JSON found in AI response"]
       ELSE
       LET start_idx == CHOOSE k \in braced : \A m \in braced : k <= m
           end_idx == CHOOSE k \in braced : \A m \in braced : m <= k
           json_text == SubSeq(response_text, start_idx, end_idx)
       IN IF ~(Len(json_text) = 1 /\ Has(json_text[1], "object"))
          THEN [success |-> FALSE, error |-> "Invalid JSON format in AI response"]
          ELSE
          LET loaded == json_text[1].object
              missing == {k \in DOMAIN RequiredFields : ~Has(loaded, RequiredFields[k])}
          IN IF missing # {}
             THEN [success |-> FALSE,
                   error |-> "Missing required field in analysis: ",
                   field |-> RequiredFields[CHOOSE k \in missing : \A m \in missing : k <= m]]
             ELSE
             LET keywords == IF loaded["missing_keywords"].ty # "list"
                             THEN WithField(loaded, "missing_keywords", List(<<>>))
                             ELSE loaded
                 skills == IF keywords["missing_skills"].ty # "dict"
                           THEN WithField(keywords, "missing_skills",
                                          DictValue([technical |-> List(<<>>), soft |-> List(<<>>)]))
                           ELSE keywords
                 suggested == RepairSuggestions(skills)
                 score == FloatOf(suggested["compatibility_score"])
             IN IF score.raised \in {"ValueError", "TypeError"}
                THEN [success |-> TRUE,
                      data |-> WithOptional(WithField(suggested, "compatibility_score",
                                                      IntValue(DEFAULT_SCORE)))]
                ELSE IF score.raised # ""
                THEN [success |-> FALSE, error |-> "Failed to parse AI analysis response"]
                ELSE [success |-> TRUE,
                      data |-> WithOptional(RepairScore(suggested, score.value))]

\* what analyze_resume_vs_job_description makes of the reply to invoke_model
ReadReply(reply) ==
    IF Has(reply, "error_code")
    THEN [success |-> FALSE,
          error |-> CASE reply.error_code = "AccessDeniedException" ->
                           "Access denied to Bedrock service. Check IAM permissions."
                      [] reply.error_code = "ValidationException" ->
                           "Invalid request parameters for AI analysis."
                      [] reply.error_code = "ModelNotReadyException" ->
                           "AI model is not available. Please try again later."
                      [] reply.error_code = "ThrottlingException" ->
                           "Analysis service is busy. Please try again later."
                      [] OTHER -> "Analysis service unavailable due to service error."]
    ELSE IF Has(reply, "botocore")
    THEN [success |-> FALSE, error |-> "Analysis service unavailable due to connection error."]
    ELSE IF ~(Has(reply.body, "output") /\ Has(reply.body.output, "message"))
    THEN [success |-> FALSE, error |-> "Invalid response format from AI model"]
    ELSE IF ~Has(reply.body.output.message, "content")
            \/ Len(reply.body.output.message.content) = 0
    THEN [success |-> FALSE, error |-> "Invalid response format from AI model"]
    ELSE LET analysis_result == parse_analysis_response(reply.body.output.message.content[1].text)
         IN IF analysis_result.success
            THEN [success |-> TRUE, analysis |-> analysis_result.data]
            ELSE analysis_result

\* the replies of the model
ScoreValues ==
    {Absent, IntValue(-5), IntValue(0), IntValue(60), IntValue(100), IntValue(150),
     FloatValue(-1), FloatValue(995), FloatValue(1005),
     NanValue, InfValue, NegInfValue, BigIntValue, BoolValue(TRUE), NullValue, List(<<>>),
     Str(<<55, 53>>), Str(<<SPACE, 45, 53, SPACE>>), Str(<<49, 53, 48, DOT, 53>>),
     Str(<<104, 105, 103, 104>>), Str(<<>>), Str(<<78, 97, 78>>), Str(<<45, 105, 110, 102>>)}

SuggestionValues ==
    {Absent, NullValue, Text("Add AWS"), DictValue(<<>>)}
    \cup {List([k \in 1..n |-> Text("Add AWS")]) : n \in 0..(MIN_SUGGESTIONS + 1)}

KeywordValues == {Absent, NullValue, List(<<Text("AWS")>>)}

SkillValues ==
    {Absent, List(<<>>), DictValue([technical |-> List(<<Text("AWS")>>), soft |-> List(<<>>)])}

StrengthValues == {Absent, List(<<Text("python")>>)}

AnalysisObjects ==
    {Field("missing_keywords", keywords) @@ Field("missing_skills", skills)
     @@ Field("suggestions", suggestions) @@ Field("compatibility_score", score)
     @@ Field("strengths", strengths) :
        keywords \in KeywordValues, skills \in SkillValues,
        suggestions \in SuggestionValues, score \in ScoreValues,
        strengths \in StrengthValues}

ReplyTexts ==
    {<<JsonObject(data)>> : data \in AnalysisObjects}
    \cup {<<Prose, JsonObject(data), Prose>> :
            data \in {d \in AnalysisObjects : Has(d, "missing_keywords") /\ Has(d, "missing_skills")
                                               /\ ~Has(d, "strengths")}}
    \cup {<<>>, <<Prose>>, <<BrokenObject>>, <<Prose, BrokenObject>>,
          <<JsonObject(<<>>), Prose, JsonObject(<<>>)>>}

TextReply(response_text) ==
    [body |-> [output |-> [message |-> [content |-> <<[text |-> response_text]>>]]]]

ModelReplies ==
    {[error_code |-> code] :
        code \in {"AccessDeniedException", "ValidationException", "ModelNotReadyException",
                  "ThrottlingException", "InternalServerException"}}
    \cup {[botocore |-> TRUE]}
    \cup {[body |-> <<>>], [body |-> [output |-> <<>>]],
          [body |-> [output |-> [message |-> <<>>]]],
          [body |-> [output |-> [message |-> [content |-> <<>>]]]]}
    \cup {TextReply(response_text) : response_text \in ReplyTexts}

\* the model is invoked and replies, or the call fails
BR_Invoke ==
    /\ bedrock.pc = "idle"
    /\ \E reply \in ModelReplies :
          bedrock' = [pc |-> "invoked", reply |-> reply, result |-> NoAnalysis]
    /\ UNCHANGED <<invocations, redaction, textract, reporter, renderer>>

\* the reply is read and the result returned
BR_Return ==
    /\ bedrock.pc = "invoked"
    /\ bedrock' = [bedrock EXCEPT !.pc = "done", !.result = ReadReply(bedrock.reply)]
    /\ UNCHANGED <<invocations, redaction, textract, reporter, renderer>>

AnalysisNext == BR_Invoke \/ BR_Return

SpecAnalysis == Init /\ [][AnalysisNext]_vars

(***************************************************************************)
(* An upload whose analysis is read from the reply of the model.  The reply *)
(* is a JSON object with the required fields; it carries the skills in the *)
(* nested missing_skills field, in the top-level fields                    *)
(* missing_technical_skills and missing_soft_skills, or in both.           *)
(***************************************************************************)
NestedSkills ==
    DictValue([technical |-> List(<<Text("AWS")>>), soft |-> List(<<Text("mentoring")>>)])

SkillReplies ==
    {Field("missing_keywords", List(<<Text("AWS")>>))
     @@ Field("missing_skills", nested)
     @@ Field("suggestions", List([k \in 1..MIN_SUGGESTIONS |-> Text("Add AWS")]))
     @@ Field("compatibility_score", IntValue(DEFAULT_SCORE))
     @@ Field("missing_technical_skills", technical)
     @@ Field("missing_soft_skills", soft) :
        nested \in {NestedSkills, List(<<>>)},
        technical \in {Absent, List(<<Text("Kubernetes")>>), List(<<>>)},
        soft \in {Absent, List(<<Text("leadership")>>)}}

WebModelReplies ==
    {TextReply(<<JsonObject(data)>>) : data \in SkillReplies}
    \cup {[error_code |-> "ThrottlingException"], TextReply(<<Prose>>)}

\* the analysis step of the endpoint, the reply of the model read as
\* analyze_resume_vs_job_description reads it
WEB_AnalyzeReply(i) ==
    /\ pc[i] = "web_analyze"
    /\ \E reply \in WebModelReplies :
          \E analysis_result \in {ReadReply(reply)} :
             IF ~analysis_result.success
             THEN Step(i, "done", loc[i],
                       create_cors_response(422,
                           [error |-> <<"AI analysis failed: ", analysis_result.error>>]),
                       <<"bedrock", "analyze.failed">>)
             ELSE Step(i, "web_report",
                       [loc[i] EXCEPT !.analysis = analysis_result.analysis],
                       NoResponse, <<"bedrock">>)
    /\ UNCHANGED <<clients, cache, objects, now, config, req, started, last>>

WebReplyNext ==
    \/ UploadRaceReceive(1)
    \/ WEB_Lookup(1) \/ WEB_Upload(1) \/ WEB_Extract(1) \/ WEB_Scrub(1)
    \/ WEB_Store(1) \/ WEB_AnalyzeReply(1) \/ WEB_Report(1)

SpecWebReply == Init /\ [][WebReplyNext]_vars


(***************************************************************************)
(* The scrubber on its own: a text is handed over, the detector answers    *)
(* with spans that do not overlap, in any order and with any confidence,   *)
(* or fails, and the text is masked.                                       *)
(***************************************************************************)
\* sixteen different letters; the same with mask characters and blanks in
\* it; a text too short for the detector; ten characters of which eight remain
\* when trimmed
Letters == [k \in 1..16 |-> 96 + k]

Starred == <<97, STAR, 98, SPACE, 99, STAR, STAR, 100, SPACE, 101, 102, 103, 104, STAR>>

Padded == <<SPACE>> \o SubSeq(Letters, 1, 8) \o <<SPACE>>

RedactionTexts == {Letters, Starred, SubSeq(Letters, 1, 3), Padded}

\* the offsets at which a span begins or ends
SpanPoints(text) == {0, 1, 3, 12, Len(text)} \cap (0..Len(text))

\* confidences, in hundredths
SpanScores == {40, PII_THRESHOLD - 1, PII_THRESHOLD, 95}

MaxSpans == 3

SpansOf(text) ==
    {Entity(score, span[1], span[2]) :
        score \in SpanScores,
        span \in {s \in SpanPoints(text) \X SpanPoints(text) : s[1] < s[2]}}

Overlap(e, f) == e.BeginOffset < f.EndOffset /\ f.BeginOffset < e.EndOffset

\* the lists of up to three spans of which no two overlap, in every order
SpanLists(text) ==
    UNION {{entities \in [1..n -> SpansOf(text)] :
               \A j, k \in 1..n : j # k => ~Overlap(entities[j], entities[k])}
           : n \in 0..MaxSpans}

SpanAnswers ==
    [text \in RedactionTexts |->
        {[kind |-> "entities", entities |-> entities] : entities \in SpanLists(text)}
        \cup {[kind |-> "client_error", entities |-> <<>>],
              [kind |-> "error", entities |-> <<>>]}]

\* a text is handed to the scrubber
RD_Receive ==
    /\ redaction.pc = "idle"
    /\ \E text \in RedactionTexts :
          redaction' = [redaction EXCEPT !.pc = "called", !.text = text]
    /\ UNCHANGED <<invocations, bedrock, textract, reporter, renderer>>

\* the detector is asked unless the text is too short, and the text is masked
RD_Redact ==
    /\ redaction.pc = "called"
    /\ \E answer \in SpanAnswers[redaction.text] :
          redaction' = [redaction EXCEPT
                          !.pc = "done",
                          !.answer = IF PiiCallsDetector(redaction.text)
                                     THEN answer ELSE NoAnswer,
                          !.result = apply_pii_redaction_to_text(redaction.text, answer)]
    /\ UNCHANGED <<invocations, bedrock, textract, reporter, renderer>>

RedactionNext == RD_Receive \/ RD_Redact

SpecRedaction == Init /\ [][RedactionNext]_vars

(***************************************************************************)
(* The extraction client on its own.  The immediate call is made first;    *)
(* when it is refused with the unsupported-document signal a job is        *)
(* started, its status is polled after every sleep, and when it has         *)
(* succeeded its result pages are fetched.  Every call is one step, and the *)
(* service answers each of them as it likes.                                *)
(***************************************************************************)
MAX_WAIT_TIME == 300
POLL_INTERVAL == 5

\* the pages of a job's result: the service hands out no more than this many
MaxPages == 2

Block(type, text) == [BlockType |-> type, Text |-> text]

BlockLists ==
    {<<>>,
     <<Block("LINE", <<SPACE>>)>>,
     <<Block("LINE", <<97, 98>>)>>,
     <<Block("PAGE", <<>>), Block("LINE", <<97>>), Block("WORD", <<97>>), Block("LINE", <<98>>)>>}

RECURSIVE LinesOf(_)
\* the texts of the blocks of type LINE, in order
LinesOf(blocks) ==
    IF blocks = <<>> THEN <<>>
    ELSE (IF Head(blocks).BlockType = "LINE" THEN <<Head(blocks).Text>> ELSE <<>>)
         \o LinesOf(Tail(blocks))

RECURSIVE JoinLines(_)
\* "\n".join(text_blocks)
JoinLines(text_blocks) ==
    IF text_blocks = <<>> THEN <<>>
    ELSE IF Len(text_blocks) = 1 THEN text_blocks[1]
    ELSE text_blocks[1] \o <<10>> \o JoinLines(Tail(text_blocks))

\* the result for the text that was read, on either path
ExtractedResult(extracted_text) ==
    IF Strip(extracted_text) = <<>>
    THEN [success |-> FALSE,
          error |-> "No text could be extracted from the PDF. The file may be corrupted or password-protected."]
    ELSE [success |-> TRUE, text |-> extracted_text]

\* what extract_text_from_s3_pdf returns for an error of a call it made itself
ImmediateFailure(outcome) ==
    IF Has(outcome, "botocore")
    THEN [success |-> FALSE, error |-> "PDF processing failed due to connection error."]
    ELSE IF Has(outcome, "exception")
    THEN [success |-> FALSE, error |-> "PDF processing failed due to unexpected error."]
    ELSE IF outcome.error_code = "InvalidS3ObjectException"
    THEN [success |-> FALSE,
          error |-> "Invalid PDF file. The file may be corrupted or password-protected."]
    ELSE IF outcome.error_code = "AccessDenied"
    THEN [success |-> FALSE, error |-> "Access denied to S3 object or Textract service."]
    ELSE [success |-> FALSE, error |-> "PDF processing failed due to service error."]

\* what _extract_text_async returns for an error of a call it made
JobFailure(outcome) ==
    IF Has(outcome, "exception")
    THEN [success |-> FALSE, error |-> "PDF processing failed due to unexpected error."]
    ELSE IF outcome.error_code = "AccessDeniedException"
    THEN [success |-> FALSE,
          error |-> "Access denied to Textract async API. Error: " \o outcome.Message,
          suggestion |-> "Check IAM permissions for start_document_text_detection and get_document_text_detection"]
    ELSE IF outcome.error_code = "InvalidS3ObjectException"
    THEN [success |-> FALSE,
          error |-> "Invalid PDF file. The file may be corrupted or password-protected."]
    ELSE IF outcome.error_code = "UnsupportedDocumentException"
    THEN [success |-> FALSE,
          error |-> "PDF format not supported by Textract. Try converting to a standard PDF format."]
    ELSE [success |-> FALSE,
          error |-> "Textract service error: " \o outcome.error_code \o " - " \o outcome.Message]

\* the texts a service puts into e.response["Error"]["Message"] and into the
\* StatusMessage of a failed job
UpstreamMessages ==
    {"Rate exceeded",
     "User: arn:aws:sts::123456789012:assumed-role/ats-buddy-role/fn is not authorized"}

HeadOutcomes ==
    {[found |-> TRUE]}
    \cup {[error_code |-> code, Message |-> m] : code \in {"404", "403"}, m \in UpstreamMessages}

ImmediateOutcomes ==
    {[blocks |-> blocks] : blocks \in BlockLists}
    \cup {[error_code |-> code, Message |-> m] :
            code \in {"UnsupportedDocumentException", "InvalidS3ObjectException",
                      "AccessDenied", "ThrottlingException"},
            m \in UpstreamMessages}
    \cup {[botocore |-> TRUE], [exception |-> TRUE]}

StartOutcomes ==
    {[JobId |-> "job"]}
    \cup {[error_code |-> code, Message |-> m] :
            code \in {"AccessDeniedException", "InvalidS3ObjectException",
                      "UnsupportedDocumentException", "ThrottlingException"},
            m \in UpstreamMessages}
    \cup {[exception |-> TRUE]}

JobStatuses == {"SUCCEEDED", "FAILED", "IN_PROGRESS", "PARTIAL_SUCCESS", "CANCELLED"}

\* status_response.get('StatusMessage', 'Unknown error')
StatusMessages == UpstreamMessages \cup {"Unknown error"}

PollOutcomes ==
    {[JobStatus |-> status, StatusMessage |-> "Unknown error"] :
        status \in JobStatuses \ {"FAILED"}}
    \cup {[JobStatus |-> "FAILED", StatusMessage |-> m] : m \in StatusMessages}
    \cup {[error_code |-> "ThrottlingException", Message |-> m] : m \in UpstreamMessages}
    \cup {[exception |-> TRUE]}

\* a page names a next one only while the result has one
PageOutcomes(pages_read) ==
    {[blocks |-> blocks, NextToken |-> more] :
        blocks \in BlockLists,
        more \in IF pages_read + 1 < MaxPages THEN BOOLEAN ELSE {FALSE}}
    \cup {[exception |-> TRUE]}

Finished(result) == [textract EXCEPT !.pc = "done", !.result = result]

\* the extension of the key is checked before anything is called
TX_Call ==
    /\ textract.pc = "idle"
    /\ \E s3_key \in {KeyA, KeyText} :
          textract' =
             IF ~LowerEndsWith(s3_key, PdfSuffix)
             THEN [textract EXCEPT
                     !.pc = "done", !.s3_key = s3_key,
                     !.result = [success |-> FALSE,
                                 error |-> "Unsupported file format. Only PDF files are supported."]]
             ELSE [textract EXCEPT !.pc = "head", !.s3_key = s3_key]
    /\ UNCHANGED <<invocations, bedrock, redaction, reporter, renderer>>

\* head_object
TX_Head ==
    /\ textract.pc = "head"
    /\ \E outcome \in HeadOutcomes :
          LET called == [textract EXCEPT !.calls = @ \o <<"head_object">>] IN
          textract' =
             IF Has(outcome, "found") THEN [called EXCEPT !.pc = "immediate"]
             ELSE IF outcome.error_code = "404"
             THEN [called EXCEPT !.pc = "done",
                                 !.result = [success |-> FALSE, error |-> "File not found in S3."]]
             ELSE [called EXCEPT !.pc = "done", !.result = ImmediateFailure(outcome)]
    /\ UNCHANGED <<invocations, bedrock, redaction, reporter, renderer>>

\* detect_document_text, with a fallback to the job on every client error
TX_Immediate_always_falling_back ==
    /\ textract.pc = "immediate"
    /\ \E outcome \in ImmediateOutcomes :
          LET called == [textract EXCEPT !.calls = @ \o <<"detect_document_text">>,
                                         !.immediate = outcome] IN
          textract' =
             IF Has(outcome, "blocks")
             THEN [called EXCEPT !.pc = "done",
                                 !.result = ExtractedResult(JoinLines(LinesOf(outcome.blocks)))]
             ELSE IF Has(outcome, "error_code")
             THEN [called EXCEPT !.pc = "start"]
             ELSE [called EXCEPT !.pc = "done", !.result = ImmediateFailure(outcome)]
    /\ UNCHANGED <<invocations, bedrock, redaction, reporter, renderer>>

\* detect_document_text
TX_Immediate ==
    /\ textract.pc = "immediate"
    /\ \E outcome \in ImmediateOutcomes :
          LET called == [textract EXCEPT !.calls = @ \o <<"detect_document_text">>,
                                         !.immediate = outcome] IN
          textract' =
             IF Has(outcome, "blocks")
             THEN [called EXCEPT !.pc = "done",
                                 !.result = ExtractedResult(JoinLines(LinesOf(outcome.blocks)))]
             ELSE IF Has(outcome, "error_code")
                     /\ outcome.error_code = "UnsupportedDocumentException"
             THEN [called EXCEPT !.pc = "start"]
             ELSE [called EXCEPT !.pc = "done", !.result = ImmediateFailure(outcome)]
    /\ UNCHANGED <<invocations, bedrock, redaction, reporter, renderer>>

\* start_document_text_detection
TX_StartJob ==
    /\ textract.pc = "start"
    /\ \E outcome \in StartOutcomes :
          LET called == [textract EXCEPT !.calls = @ \o <<"start_document_text_detection">>] IN
          textract' =
             IF Has(outcome, "JobId")
             THEN [called EXCEPT !.pc = "polling", !.elapsed_time = 0]
             ELSE [called EXCEPT !.pc = "done", !.result = JobFailure(outcome)]
    /\ UNCHANGED <<invocations, bedrock, redaction, reporter, renderer>>

\* a loop that goes on while the time waited is at most the ceiling
Polled_past_ceiling(slept, outcome) ==
    IF ~Has(outcome, "JobStatus")
    THEN [slept EXCEPT !.pc = "done", !.result = JobFailure(outcome)]
    ELSE
    LET seen == [slept EXCEPT !.job_status = outcome.JobStatus] IN
    IF outcome.JobStatus = "SUCCEEDED" THEN [seen EXCEPT !.pc = "fetching"]
    ELSE IF outcome.JobStatus = "FAILED"
    THEN [seen EXCEPT !.pc = "done",
                      !.result = [success |-> FALSE,
                                  error |-> "Textract job failed: " \o outcome.StatusMessage]]
    ELSE IF outcome.JobStatus \in {"IN_PROGRESS", "PARTIAL_SUCCESS"}
    THEN IF seen.elapsed_time <= MAX_WAIT_TIME
         THEN seen
         ELSE [seen EXCEPT !.pc = "done",
                           !.result = [success |-> FALSE,
                                       error |-> "Textract job timed out after 300 seconds. Large PDFs may take longer to process."]]
    ELSE [seen EXCEPT !.pc = "done",
                      !.result = [success |-> FALSE,
                                  error |-> "Unexpected job status: " \o outcome.JobStatus]]

\* what one turn of the polling loop makes of the status it reads
Polled(slept, outcome) ==
    IF ~Has(outcome, "JobStatus")
    THEN [slept EXCEPT !.pc = "done", !.result = JobFailure(outcome)]
    ELSE
    LET seen == [slept EXCEPT !.job_status = outcome.JobStatus] IN
    IF outcome.JobStatus = "SUCCEEDED" THEN [seen EXCEPT !.pc = "fetching"]
    ELSE IF outcome.JobStatus = "FAILED"
    THEN [seen EXCEPT !.pc = "done",
                      !.result = [success |-> FALSE,
                                  error |-> "Textract job failed: " \o outcome.StatusMessage]]
    ELSE IF outcome.JobStatus \in {"IN_PROGRESS", "PARTIAL_SUCCESS"}
    THEN IF seen.elapsed_time < MAX_WAIT_TIME
         THEN seen
         ELSE [seen EXCEPT !.pc = "done",
                           !.result = [success |-> FALSE,
                                       error |-> "Textract job timed out after 300 seconds. Large PDFs may take longer to process."]]
    ELSE [seen EXCEPT !.pc = "done",
                      !.result = [success |-> FALSE,
                                  error |-> "Unexpected job status: " \o outcome.JobStatus]]

\* one turn of the polling loop: sleep, then get_document_text_detection; the
\* loop's condition is looked at in Polled, at the end of the turn before
TX_Poll ==
    /\ textract.pc = "polling"
    /\ \E outcome \in PollOutcomes :
          textract' = Polled([textract EXCEPT !.elapsed_time = @ + POLL_INTERVAL,
                                              !.polls = @ + 1], outcome)
    /\ UNCHANGED <<invocations, bedrock, redaction, reporter, renderer>>

\* one page of the result: its lines are kept, and the next page is asked for
\* while the service names one; a failed call ends the reading with the
\* lines read so far
TX_Fetch ==
    /\ textract.pc = "fetching"
    /\ \E outcome \in PageOutcomes(textract.pages) :
          textract' =
             IF Has(outcome, "exception")
             THEN Finished(ExtractedResult(JoinLines(textract.text_blocks)))
             ELSE LET read == [textract EXCEPT
                                 !.pages = @ + 1,
                                 !.text_blocks = @ \o LinesOf(outcome.blocks)]
                  IN IF outcome.NextToken
                     THEN read
                     ELSE [read EXCEPT !.pc = "done",
                                       !.result = ExtractedResult(JoinLines(read.text_blocks))]
    /\ UNCHANGED <<invocations, bedrock, redaction, reporter, renderer>>

ExtractNext == TX_Call \/ TX_Head \/ TX_Immediate \/ TX_StartJob \/ TX_Poll \/ TX_Fetch

SpecExtract == Init /\ [][ExtractNext]_vars

\* the call is never suspended for good: a step that can be taken is taken
SpecExtractFair == SpecExtract /\ WF_vars(ExtractNext)

(***************************************************************************)
(* The report builder on its own: the report is rendered, both artifacts   *)
(* are put into the bucket, and then a link is minted for each.  Every     *)
(* storage call is one step and succeeds or fails as the store likes.      *)
(***************************************************************************)
REPORT_ID == "uuid4"

PutOutcomes == {"stored", "AccessDenied", "NoSuchBucket", "InternalError", "exception"}

\* store_report_in_s3
store_report_in_s3(bucket_name, report_format, report_id, outcome) ==
    IF bucket_name = NoBucket \/ outcome = "exception"
    THEN [success |-> FALSE, error |-> "Unexpected error storing report."]
    ELSE IF outcome = "AccessDenied"
    THEN [success |-> FALSE, error |-> "Access denied to S3 bucket. Check IAM permissions."]
    ELSE IF outcome = "NoSuchBucket"
    THEN [success |-> FALSE, error |-> "S3 bucket does not exist."]
    ELSE IF outcome # "stored"
    THEN [success |-> FALSE, error |-> "Failed to store report in S3."]
    ELSE [success |-> TRUE, s3_key |-> ReportKey(report_id, report_format)]

MintOutcomes == {"minted", "client_error", "exception"}

\* generate_presigned_download_url
generate_presigned_download_url(s3_key, outcome) ==
    IF outcome = "client_error"
    THEN [success |-> FALSE, error |-> "Failed to generate download URL"]
    ELSE IF outcome = "exception"
    THEN [success |-> FALSE, error |-> "Unexpected error generating download URL"]
    ELSE [success |-> TRUE, download_url |-> <<"url", s3_key[2], s3_key[3]>>]

\* the outcomes of the four calls, as create_complete_report_package reads them
StorageAnswer(builder) ==
    [put_markdown |-> builder.markdown_storage.success,
     put_html |-> builder.html_storage.success,
     url_markdown |-> builder.markdown_url = NoResult \/ builder.markdown_url.success,
     url_html |-> builder.html_url = NoResult \/ builder.html_url.success]

\* generate_report renders both formats, or fails
RG_Generate ==
    /\ reporter.pc = "idle"
    /\ \E bucket_name \in {RealReportsBucket, NoBucket}, rendered \in BOOLEAN :
          reporter' =
             IF rendered
             THEN [reporter EXCEPT !.pc = "put_markdown", !.bucket_name = bucket_name]
             ELSE [reporter EXCEPT
                     !.pc = "done", !.bucket_name = bucket_name,
                     !.result = [success |-> FALSE,
                                 error |-> "Failed to generate analysis report"]]
    /\ UNCHANGED <<invocations, bedrock, redaction, textract, renderer>>

\* a build that gives up as soon as the markdown artifact could not be put
RG_StoreMarkdown_stopping ==
    /\ reporter.pc = "put_markdown"
    /\ \E outcome \in PutOutcomes :
          LET markdown_storage ==
                  store_report_in_s3(reporter.bucket_name, "md", REPORT_ID, outcome)
          IN reporter' =
                IF markdown_storage.success
                THEN [reporter EXCEPT
                        !.pc = "put_html",
                        !.markdown_storage = markdown_storage,
                        !.stored = @ \cup {markdown_storage.s3_key}]
                ELSE [reporter EXCEPT
                        !.pc = "done",
                        !.markdown_storage = markdown_storage,
                        !.result = [success |-> FALSE,
                                    error |-> "Failed to store reports in S3"]]
    /\ UNCHANGED <<invocations, bedrock, redaction, textract, renderer>>


\* the markdown artifact is put, whatever comes of it the html artifact is put next
RG_StoreMarkdown ==
    /\ reporter.pc = "put_markdown"
    /\ \E outcome \in PutOutcomes :
          LET markdown_storage ==
                  store_report_in_s3(reporter.bucket_name, "md", REPORT_ID, outcome)
          IN reporter' = [reporter EXCEPT
                            !.pc = "put_html",
                            !.markdown_storage = markdown_storage,
                            !.stored = IF markdown_storage.success
                                       THEN @ \cup {markdown_storage.s3_key} ELSE @]
    /\ UNCHANGED <<invocations, bedrock, redaction, textract, renderer>>

\* the html artifact is put; the build fails here unless both are stored
RG_StoreHtml ==
    /\ reporter.pc = "put_html"
    /\ \E outcome \in PutOutcomes :
          LET html_storage == store_report_in_s3(reporter.bucket_name, "html", REPORT_ID, outcome)
              put == [reporter EXCEPT
                        !.html_storage = html_storage,
                        !.stored = IF html_storage.success
                                   THEN @ \cup {html_storage.s3_key} ELSE @]
          IN reporter' =
                IF reporter.markdown_storage.success /\ html_storage.success
                THEN [put EXCEPT !.pc = "url_markdown"]
                ELSE [put EXCEPT
                        !.pc = "done",
                        !.result = create_complete_report_package(
                                      reporter.bucket_name, REPORT_ID, StorageAnswer(put))]
    /\ UNCHANGED <<invocations, bedrock, redaction, textract, renderer>>

\* the link to the markdown artifact is minted
RG_MintMarkdown ==
    /\ reporter.pc = "url_markdown"
    /\ \E outcome \in MintOutcomes :
          reporter' = [reporter EXCEPT
                         !.pc = "url_html",
                         !.markdown_url = generate_presigned_download_url(
                                             reporter.markdown_storage.s3_key, outcome)]
    /\ UNCHANGED <<invocations, bedrock, redaction, textract, renderer>>

\* the link to the html artifact is minted and the package is returned
RG_MintHtml ==
    /\ reporter.pc = "url_html"
    /\ \E outcome \in MintOutcomes :
          LET minted == [reporter EXCEPT
                           !.html_url = generate_presigned_download_url(
                                           reporter.html_storage.s3_key, outcome)]
          IN reporter' = [minted EXCEPT
                            !.pc = "done",
                            !.result = create_complete_report_package(
                                          reporter.bucket_name, REPORT_ID, StorageAnswer(minted))]
    /\ UNCHANGED <<invocations, bedrock, redaction, textract, renderer>>

ReportNext ==
    RG_Generate \/ RG_StoreMarkdown \/ RG_StoreHtml \/ RG_MintMarkdown \/ RG_MintHtml

SpecReport == Init /\ [][ReportNext]_vars

(***************************************************************************)
(* The report renderer on its own: an analysis result is handed over and   *)
(* rendered as Markdown, then as HTML.  A Markdown report is the list of   *)
(* its lines and an HTML report the list of the chunks appended to it;     *)
(* a line or chunk is the list of the pieces it is formatted from.  The    *)
(* style sheet of the HTML report is left out.                             *)
(***************************************************************************)
EXCELLENT_SCORE == 80
GOOD_SCORE == 60
KEYWORD_CAP == 10
TECHNICAL_CAP == 8
SOFT_CAP == 6
STRENGTH_CAP == 5
AREA_CAP == 5

\* analysis_data.get(field, default)
Get(analysis_data, field, default) ==
    IF field \in DOMAIN analysis_data THEN analysis_data[field] ELSE default

\* str() of a number
ScoreText(v) ==
    IF v.ty = "int" THEN ToString(v.val)
    ELSE ToString(v.val \div 10) \o "." \o ToString(v.val % 10)

\* a >= b between Python numbers
AtLeast(a, b) == a.ty # "nan" /\ b.ty # "nan" /\ ~PyLess(a, b)

ExcellentMessage == "Excellent match! Your resume aligns very well with the job requirements."
GoodMessage == "Good match with room for improvement. Consider the suggestions below."
PoorMessage == "Needs improvement to better match the job requirements."

\* the numbered lines of enumerate(suggestions, 1)
Numbered(items) == [k \in DOMAIN items |-> <<ToString(k), ". ", items[k]>>]

\* a score line that takes a score of exactly 80 for a good match
MarkdownTierLine_other_bands(compatibility_score) ==
    IF AtLeast(compatibility_score, IntValue(EXCELLENT_SCORE + 1))
    THEN <<"**Excellent match!** Your resume aligns very well with the job requirements.">>
    ELSE IF AtLeast(compatibility_score, IntValue(GOOD_SCORE))
    THEN <<"**Good match** with room for improvement. Consider the suggestions below.">>
    ELSE <<"**Needs improvement** to better match the job requirements.">>

\* the score interpretation of the Markdown report
MarkdownTierLine(compatibility_score) ==
    IF AtLeast(compatibility_score, IntValue(EXCELLENT_SCORE))
    THEN <<"**Excellent match!** Your resume aligns very well with the job requirements.">>
    ELSE IF AtLeast(compatibility_score, IntValue(GOOD_SCORE))
    THEN <<"**Good match** with room for improvement. Consider the suggestions below.">>
    ELSE <<"**Needs improvement** to better match the job requirements.">>

\* the score message of the HTML report
HtmlScoreMessage(compatibility_score) ==
    IF AtLeast(compatibility_score, IntValue(EXCELLENT_SCORE)) THEN ExcellentMessage
    ELSE IF AtLeast(compatibility_score, IntValue(GOOD_SCORE)) THEN GoodMessage
    ELSE PoorMessage

\* for item in items[:cap]: report_lines.append(f"- {item}")
MarkdownList(items, cap) ==
    LET shown == Prefix(items, cap) IN [k \in DOMAIN shown |-> <<"- ", shown[k]>>]

\* an HTML list that shows every item
HtmlList_uncapped(items, cap) ==
    [k \in DOMAIN items |-> <<"                <li>", items[k], "</li>\n">>]

\* for item in items[:cap]: html_content += f"                <li>{item}</li>\n"
HtmlList(items, cap) ==
    LET shown == Prefix(items, cap) IN
    [k \in DOMAIN shown |-> <<"                <li>", shown[k], "</li>\n">>]

\* ReportGenerator._generate_markdown_report
generate_markdown_report(analysis_data, resume_filename, job_title, timestamp) ==
    LET compatibility_score == Get(analysis_data, "compatibility_score", IntValue(0))
        missing_keywords == Get(analysis_data, "missing_keywords", <<>>)
        missing_skills == Get(analysis_data, "missing_skills", <<>>)
        technical == Get(missing_skills, "technical", <<>>)
        soft == Get(missing_skills, "soft", <<>>)
        suggestions == Get(analysis_data, "suggestions", <<>>)
        strengths == Get(analysis_data, "strengths", <<>>)
        areas_for_improvement == Get(analysis_data, "areas_for_improvement", <<>>)
    IN
    <<<<"# ATS Buddy - Resume Analysis Report">>, <<"">>,
      <<"**Generated:** ", timestamp>>>>
    \o (IF resume_filename # "" THEN <<<<"**Resume:** ", resume_filename>>>> ELSE <<>>)
    \o (IF job_title # "" THEN <<<<"**Position:** ", job_title>>>> ELSE <<>>)
    \o <<<<"">>, <<"## Compatibility Score">>, <<"">>,
         <<"**", ScoreText(compatibility_score), "%** - ">>,
         MarkdownTierLine(compatibility_score),
         <<"">>, <<"## Key Findings">>, <<"">>>>
    \o (IF missing_keywords # <<>>
        THEN <<<<"### Missing Keywords">>, <<"">>,
               <<"The following keywords from the job description were not found in your resume:">>,
               <<"">>>>
             \o MarkdownList(missing_keywords, KEYWORD_CAP)
             \o <<<<"">>>>
        ELSE <<>>)
    \o (IF technical # <<>> \/ soft # <<>>
        THEN <<<<"### Missing Skills">>, <<"">>>>
             \o (IF technical # <<>>
                 THEN <<<<"**Technical Skills:**">>>>
                      \o MarkdownList(technical, TECHNICAL_CAP)
                      \o <<<<"">>>>
                 ELSE <<>>)
             \o (IF soft # <<>>
                 THEN <<<<"**Soft Skills:**">>>>
                      \o MarkdownList(soft, SOFT_CAP)
                      \o <<<<"">>>>
                 ELSE <<>>)
        ELSE <<>>)
    \o (IF strengths # <<>>
        THEN <<<<"## Your Strengths">>, <<"">>,
               <<"Areas where your resume already aligns well:">>, <<"">>>>
             \o MarkdownList(strengths, STRENGTH_CAP)
             \o <<<<"">>>>
        ELSE <<>>)
    \o (IF suggestions # <<>>
        THEN <<<<"## Actionable Recommendations">>, <<"">>,
               <<"Here are specific ways to improve your resume for this position:">>, <<"">>>>
             \o Numbered(suggestions)
             \o <<<<"">>>>
        ELSE <<>>)
    \o (IF areas_for_improvement # <<>>
        THEN <<<<"## Areas for Improvement">>, <<"">>>>
             \o MarkdownList(areas_for_improvement, AREA_CAP)
             \o <<<<"">>>>
        ELSE <<>>)
    \o <<<<"---">>, <<"">>, <<"## Next Steps">>, <<"">>,
         <<"1. **Review missing keywords** and incorporate relevant ones naturally into your resume">>,
         <<"2. **Update your skills section** to include missing technical and soft skills you possess">>,
         <<"3. **Quantify your achievements** with specific metrics and numbers where possible">>,
         <<"4. **Tailor your experience descriptions** to use language similar to the job posting">>,
         <<"5. **Proofread carefully** to ensure your resume is error-free and professional">>,
         <<"">>,
         <<"*Generated by ATS Buddy - Your AI-powered resume optimization assistant*">>>>

\* the markup that opens each list of the HTML report
KeywordsOpening ==
    "\n        <h2>Missing Keywords</h2>\n        <div class=\"missing\">\n            <p>The following keywords from the job description were not found in your resume:</p>\n            <ul>\n"
TechnicalOpening ==
    "            <h3>Technical Skills:</h3>\n            <ul>\n"
SoftOpening ==
    "            <h3>Soft Skills:</h3>\n            <ul>\n"
StrengthsOpening ==
    "\n        <h2>Your Strengths</h2>\n        <div class=\"strengths\">\n            <p>Areas where your resume already aligns well:</p>\n            <ul>\n"
SuggestionsOpening ==
    "\n        <h2>Actionable Recommendations</h2>\n        <div class=\"suggestions\">\n            <p>Here are specific ways to improve your resume for this position:</p>\n            <ol>\n"
AreasOpening ==
    "\n        <h2>Areas for Improvement</h2>\n        <div class=\"missing\">\n            <ul>\n"

\* ReportGenerator._generate_html_report
generate_html_report(analysis_data, resume_filename, job_title, timestamp) ==
    LET compatibility_score == Get(analysis_data, "compatibility_score", IntValue(0))
        missing_keywords == Get(analysis_data, "missing_keywords", <<>>)
        missing_skills == Get(analysis_data, "missing_skills", <<>>)
        technical == Get(missing_skills, "technical", <<>>)
        soft == Get(missing_skills, "soft", <<>>)
        suggestions == Get(analysis_data, "suggestions", <<>>)
        strengths == Get(analysis_data, "strengths", <<>>)
        areas_for_improvement == Get(analysis_data, "areas_for_improvement", <<>>)
        score_message == HtmlScoreMessage(compatibility_score)
    IN
    <<<<"<!DOCTYPE html>\n<html lang=\"en\">\n<head>\n    <title>ATS Buddy - Resume Analysis Report</title>\n</head>\n<body>\n    <div class=\"container\">\n        <h1>ATS Buddy - Resume Analysis Report</h1>\n        \n        <div class=\"metadata\">\n            <strong>Generated:</strong> ",
         timestamp, "<br>\n">>>>
    \o (IF resume_filename # ""
        THEN <<<<"            <strong>Resume:</strong> ", resume_filename, "<br>\n">>>> ELSE <<>>)
    \o (IF job_title # ""
        THEN <<<<"            <strong>Position:</strong> ", job_title, "<br>\n">>>> ELSE <<>>)
    \o <<<<"        </div>\n        \n        <div class=\"score-section\">\n            <h2>Compatibility Score</h2>\n            <div class=\"score-number\">",
           ScoreText(compatibility_score),
           "%</div>\n            <div class=\"score-message\">",
           score_message,
           "</div>\n        </div>\n">>>>
    \o (IF missing_keywords # <<>>
        THEN <<<<KeywordsOpening>>>>
             \o HtmlList(missing_keywords, KEYWORD_CAP)
             \o <<<<"            </ul>\n        </div>\n">>>>
        ELSE <<>>)
    \o (IF technical # <<>> \/ soft # <<>>
        THEN <<<<"\n        <h2>Missing Skills</h2>\n        <div class=\"missing\">\n">>>>
             \o (IF technical # <<>>
                 THEN <<<<TechnicalOpening>>>>
                      \o HtmlList(technical, TECHNICAL_CAP)
                      \o <<<<"            </ul>\n">>>>
                 ELSE <<>>)
             \o (IF soft # <<>>
                 THEN <<<<SoftOpening>>>>
                      \o HtmlList(soft, SOFT_CAP)
                      \o <<<<"            </ul>\n">>>>
                 ELSE <<>>)
             \o <<<<"        </div>\n">>>>
        ELSE <<>>)
    \o (IF strengths # <<>>
        THEN <<<<StrengthsOpening>>>>
             \o HtmlList(strengths, STRENGTH_CAP)
             \o <<<<"            </ul>\n        </div>\n">>>>
        ELSE <<>>)
    \o (IF suggestions # <<>>
        THEN <<<<SuggestionsOpening>>>>
             \o HtmlList(suggestions, Len(suggestions))
             \o <<<<"            </ol>\n        </div>\n">>>>
        ELSE <<>>)
    \o (IF areas_for_improvement # <<>>
        THEN <<<<AreasOpening>>>>
             \o HtmlList(areas_for_improvement, AREA_CAP)
             \o <<<<"            </ul>\n        </div>\n">>>>
        ELSE <<>>)
    \o <<<<"\n        <h2>Next Steps</h2>\n        <div class=\"next-steps\">\n            <ol>\n                <li><strong>Review missing keywords</strong> and incorporate relevant ones naturally into your resume</li>\n                <li><strong>Update your skills section</strong> to include missing technical and soft skills you possess</li>\n                <li><strong>Quantify your achievements</strong> with specific metrics and numbers where possible</li>\n                <li><strong>Tailor your experience descriptions</strong> to use language similar to the job posting</li>\n                <li><strong>Proofread carefully</strong> to ensure your resume is error-free and professional</li>\n            </ol>\n        </div>\n        \n        <div class=\"footer\">\n            Generated by ATS Buddy - Your AI-powered resume optimization assistant\n        </div>\n    </div>\n</body>\n</html>">>>>

\* the analysis results handed to the renderer: every whole score with one
\* set of lists, scores with a fraction around the two thresholds, and lists
\* of every length around their caps under one score
Items(name, n) == [k \in 1..n |-> name \o ToString(k)]

RenderScores ==
    {IntValue(n) : n \in 0..MAX_SCORE}
    \cup {FloatValue(t) : t \in {10 * GOOD_SCORE - 1, 10 * GOOD_SCORE,
                                  10 * EXCELLENT_SCORE - 1, 10 * EXCELLENT_SCORE,
                                  10 * MAX_SCORE}}

AnalysisWith(score, keywords, technical, soft, strengths, suggestions, areas) ==
    [compatibility_score |-> score,
     missing_keywords |-> Items("keyword ", keywords),
     missing_skills |-> [technical |-> Items("technical skill ", technical),
                         soft |-> Items("soft skill ", soft)],
     strengths |-> Items("strength ", strengths),
     suggestions |-> Items("suggestion ", suggestions),
     areas_for_improvement |-> Items("area ", areas)]

RenderInputs ==
    {AnalysisWith(score, 1, 1, 0, 1, MIN_SUGGESTIONS, 0) : score \in RenderScores}
    \cup
    {AnalysisWith(IntValue(DEFAULT_SCORE), keywords, technical, soft, strengths,
                  suggestions, areas) :
        keywords \in {0, KEYWORD_CAP, KEYWORD_CAP + 1},
        technical \in {0, TECHNICAL_CAP + 1},
        soft \in {0, SOFT_CAP, SOFT_CAP + 1},
        strengths \in {0, STRENGTH_CAP + 1},
        suggestions \in {MIN_SUGGESTIONS, KEYWORD_CAP + 2},
        areas \in {0, AREA_CAP, AREA_CAP + 1}}
    \cup
    {[missing_keywords |-> Items("keyword ", 1)]}

Timestamp == "January 01, 2025 at 12:00 PM UTC"

\* generate_report is called with an analysis result
RN_Generate ==
    /\ renderer.pc = "idle"
    /\ \E analysis_data \in RenderInputs :
          renderer' = [renderer EXCEPT !.pc = "markdown", !.analysis_data = analysis_data]
    /\ UNCHANGED <<invocations, bedrock, redaction, textract, reporter>>

RN_Markdown ==
    /\ renderer.pc = "markdown"
    /\ renderer' = [renderer EXCEPT
                      !.pc = "html",
                      !.markdown_content =
                          generate_markdown_report(renderer.analysis_data, "a.pdf",
                                                   "Web Analysis", Timestamp)]
    /\ UNCHANGED <<invocations, bedrock, redaction, textract, reporter>>

RN_Html ==
    /\ renderer.pc = "html"
    /\ renderer' = [renderer EXCEPT
                      !.pc = "done",
                      !.html_content =
                          generate_html_report(renderer.analysis_data, "a.pdf",
                                               "Web Analysis", Timestamp)]
    /\ UNCHANGED <<invocations, bedrock, redaction, textract, reporter>>

RenderNext == RN_Generate \/ RN_Markdown \/ RN_Html

SpecRender == Init /\ [][RenderNext]_vars


(***************************************************************************)
(* Properties.  What an invocation did is read from its call log: the      *)
(* calls in the order made, a failed stage leaving its mark after the call.*)
(***************************************************************************)
Made(i, call) == \E k \in DOMAIN log[i] : log[i][k] = call

Count(i, call) == Cardinality({k \in DOMAIN log[i] : log[i][k] = call})

\* no call of the set follows the mark in the log
NoneAfter(i, mark, calls) ==
    \A k, m \in DOMAIN log[i] : (log[i][k] = mark /\ m > k) => log[i][m] \notin calls

\* invocation i is handling, or has handled, a complete-pipeline event
InPipeline(i) == req[i] # NoEvent /\ IsCompletePipelineEvent(req[i])

IsErrorEnvelope(response, status_code) ==
    /\ Has(response, "statusCode") /\ response.statusCode = status_code
    /\ Has(response, "body") /\ Has(response.body, "success") /\ ~response.body.success

\* C1: in the complete pipeline a failed extraction ends the request with a
\* success=false envelope of status 422 and no cache write, analysis or
\* report call follows it; a failed analysis ends the request with a
\* success=false envelope of status 422 and no report call follows it; each
\* of the two stages is called at most once for an event.
C1_FailedStageEndsRequest ==
    \A i \in Slots :
        InPipeline(i) =>
            /\ Made(i, "extract.failed") =>
                  /\ pc[i] = "done"
                  /\ IsErrorEnvelope(resp[i], 422)
                  /\ NoneAfter(i, "extract.failed",
                               {"textract", "dynamodb.put_item", "bedrock", "report"})
            /\ Made(i, "analyze.failed") =>
                  /\ pc[i] = "done"
                  /\ IsErrorEnvelope(resp[i], 422)
                  /\ NoneAfter(i, "analyze.failed", {"bedrock", "report"})
            /\ Count(i, "textract") <= 1
            /\ Count(i, "bedrock") <= 1

\* an extraction of a readable PDF has failed after a cache miss
C1_Witness ==
    \E i \in Slots :
        /\ InPipeline(i)
        /\ Made(i, "dynamodb.get_item")
        /\ Made(i, "extract.failed")
        /\ ObjectAt(loc[i].s3_key) = FileA

\* C2: in the complete pipeline a lookup hit sends the request straight to
\* analysis on the cached text, with no extraction, no PII scrub and no cache
\* write, and a successful response carries the status tag deduplicated; on a
\* miss extraction runs and a successful response carries the tag processed.
C2_HitSkipsExtraction ==
    \A i \in Slots :
        InPipeline(i) =>
            /\ loc[i].is_duplicate =>
                  /\ pc[i] \in {"cp_analyze", "cp_report", "done"}
                  /\ ~Made(i, "textract") /\ ~Made(i, "scrub") /\ ~Made(i, "comprehend")
                  /\ ~Made(i, "dynamodb.put_item")
                  /\ loc[i].processing_status = "deduplicated"
                  /\ IsSuccess(resp[i]) => resp[i].body.deduplication.status = "deduplicated"
            /\ (Made(i, "dynamodb.get_item") /\ ~loc[i].is_duplicate) =>
                  /\ pc[i] = "cp_extract" \/ Made(i, "textract")
                  /\ IsSuccess(resp[i]) => resp[i].body.deduplication.status = "processed"

\* a request answered from the cache has succeeded
C2_Witness ==
    \E i \in Slots :
        /\ InPipeline(i)
        /\ loc[i].is_duplicate
        /\ Made(i, "bedrock")
        /\ IsSuccess(resp[i])

\* a failure of the deduplication layer happened in invocation i
DedupFailed(i) ==
    Made(i, "hash.failed") \/ Made(i, "lookup.failed") \/ Made(i, "store.failed")

\* C3: failures of the deduplication layer are absorbed.  A failed hash gives
\* is_duplicate = false with no fingerprint and no lookup; a failed lookup is
\* a miss; a failed store returns false.  In each case the complete pipeline
\* goes on to extraction (after a failed store: to analysis) with the status
\* tag processed, and whether it succeeds is decided by the later stages alone.
C3_DedupFailuresAbsorbed ==
    /\ \A a \in DynamoAnswers :
          /\ ~check_file_deduplication(cache, NoHash, a).is_duplicate
          /\ check_file_deduplication(cache, NoHash, a).file_hash = NoHash
          /\ a # "ok" => ~store_processed_file(a)
          /\ a # "ok" => \A f \in Files : ~check_file_deduplication(cache, Sha256(f), a).is_duplicate
    /\ \A i \in Slots :
          InPipeline(i) =>
              /\ Made(i, "hash.failed") =>
                    /\ ~Made(i, "dynamodb.get_item") /\ ~Made(i, "dynamodb.put_item")
                    /\ ~loc[i].is_duplicate /\ loc[i].file_hash = NoHash
              /\ Made(i, "lookup.failed") => ~loc[i].is_duplicate
              /\ (Made(i, "hash.failed") \/ Made(i, "lookup.failed")) =>
                    pc[i] = "cp_extract" \/ Made(i, "textract")
              /\ Made(i, "store.failed") =>
                    /\ ~loc[i].stored
                    /\ pc[i] = "cp_analyze" \/ Made(i, "bedrock")
              /\ (DedupFailed(i) /\ pc[i] = "done") =>
                    /\ IsSuccess(resp[i]) <=>
                          ~(Made(i, "extract.failed") \/ Made(i, "analyze.failed")
                            \/ Made(i, "report.failed"))
                    /\ IsSuccess(resp[i]) => resp[i].body.deduplication.status = "processed"

\* a request whose lookup and whose cache write both failed has succeeded
C3_Witness ==
    \E i \in Slots :
        /\ InPipeline(i)
        /\ Made(i, "lookup.failed")
        /\ Made(i, "store.failed")
        /\ IsSuccess(resp[i])

\* the environment with the cache table configured
WithCacheTable(cfg) == [cfg EXCEPT !.cache_table = TRUE]

\* invocation i has received its event and made no call yet
JustReceived(i) == req[i] # NoEvent /\ log[i] = <<>>

\* C4: deduplication is never a correctness dependency: for every request
\* shape, a cache table that is not configured leaves the request where a
\* configured, empty cache would leave it: it proceeds to the same stage, or
\* ends with the same response.
C4_CacheNeverADependency ==
    \A i \in Slots :
        JustReceived(i) =>
            /\ pc[i] = lambda_handler(req[i], WithCacheTable(config), started).pc
            /\ resp[i] = lambda_handler(req[i], WithCacheTable(config), started).resp

\* C5: a failure of the PII detector is absorbed: apply_pii_redaction_to_text
\* returns success whatever the detector answers, with the text unmodified
\* when the detection failed; the complete pipeline then goes on to the cache
\* write and the analysis as after a detection that found nothing.
C5_DetectorFailureAbsorbed ==
    \A i \in Slots :
        /\ \A answer \in DetectorAnswers(loc[i].extracted_text) :
              LET pii_result == apply_pii_redaction_to_text(loc[i].extracted_text, answer) IN
              /\ pii_result.success
              /\ answer.kind # "entities" =>
                    /\ pii_result.text = loc[i].extracted_text
                    /\ ~pii_result.redacted
        /\ (InPipeline(i) /\ Made(i, "detect.failed")) =>
              /\ loc[i].extracted_text = DocText(ObjectAt(loc[i].s3_key))
              /\ ~loc[i].pii_redacted
              /\ pc[i] \in {"cp_store", "cp_analyze", "cp_report", "done"}
              /\ loc[i].file_hash # NoHash => (pc[i] = "cp_store" \/ Made(i, "dynamodb.put_item"))
              /\ pc[i] \in {"cp_report", "done"} => Made(i, "bedrock")

\* the detector failed on a text that names a person, and the text went on,
\* unmasked, to the cache and to the analysis
C5_Witness ==
    \E i \in Slots :
        /\ InPipeline(i)
        /\ Made(i, "detect.failed")
        /\ loc[i].extracted_text = TextB
        /\ loc[i].stored
        /\ Made(i, "bedrock")

\* C6: on the complete-pipeline path a failed report build after a successful
\* analysis ends the request with a success=false envelope that carries
\* neither the analysis summary nor any report link.
C6_ReportFailureIsTerminal ==
    \A i \in Slots :
        (InPipeline(i) /\ Made(i, "report.failed")) =>
            /\ loc[i].analysis # NoAnalysis
            /\ pc[i] = "done"
            /\ IsErrorEnvelope(resp[i], 500)
            /\ ~Has(resp[i].body, "analysis_summary")
            /\ ~Has(resp[i].body, "reports")

\* both artifacts were stored and minting the links failed
C6_Witness ==
    \E i \in Slots :
        /\ InPipeline(i)
        /\ Made(i, "report.url_html")
        /\ Made(i, "report.failed")

\* invocation i is handling, or has handled, an analysis-only event
InAnalysisOnly(i) ==
    /\ req[i] # NoEvent
    /\ IsContainer(req[i])
    /\ ~is_api_gateway_request(req[i])
    /\ validate_input(req[i]).valid
    /\ validate_input(req[i]).event_type = "analysis_only"

\* C7: on the analysis-only path a failed report build after a successful
\* analysis never fails the request: the response is success=true with the
\* full analysis summary and an explicit note that the reports were not
\* stored.
C7_ReportFailureIsDegradedSuccess ==
    \A i \in Slots :
        InAnalysisOnly(i) =>
            /\ Made(i, "report.failed") =>
                  /\ pc[i] = "done"
                  /\ IsSuccess(resp[i])
                  /\ resp[i].statusCode = 200
                  /\ resp[i].body.analysis_summary = AnalysisSummary(SampleAnalysis)
                  /\ Has(resp[i].body.reports, "message")
                  /\ resp[i].body.reports.message =
                        "Analysis completed successfully but reports were not saved to S3"
                  /\ ~Has(resp[i].body.reports, "markdown")
            /\ (pc[i] = "done" /\ Made(i, "bedrock") /\ ~Made(i, "analyze.failed")) =>
                  IsSuccess(resp[i])

\* an analysis-only request with a real reports bucket whose build failed
C7_Witness ==
    \E i \in Slots :
        /\ InAnalysisOnly(i)
        /\ Made(i, "report.put_markdown")
        /\ Made(i, "report.failed")

\* invocation i has finished a complete-pipeline call that follows another
\* complete-pipeline call on the same bytes with the same job description
SecondCall(i) ==
    /\ InPipeline(i)
    /\ pc[i] = "done"
    /\ loc[i].s3_key # <<>>
    /\ last[i].called
    /\ last[i].content = ObjectAt(loc[i].s3_key)
    /\ last[i].job_description = loc[i].job_description

RaisesInValidation(event) ==
    /\ IsContainer(event)
    /\ ~is_api_gateway_request(event)
    /\ validate_input(event) = [valid |-> FALSE, error |-> <<"Invalid event structure">>]

\* the event makes the construction of the clients raise
RaisesInConstruction(event) ==
    /\ IsContainer(event)
    /\ ~is_api_gateway_request(event)
    /\ validate_input(event).valid
    /\ ~ClientsConstructed(config)

\* the event makes the first statements of the pipeline handler raise
RaisesInPipeline(event) ==
    /\ IsCompletePipelineEvent(event)
    /\ ClientsConstructed(config)
    /\ ~IsStr(event.s3_key)

StatusCodes == {200, 400, 404, 422, 500}

IsEnvelope(response) ==
    /\ Has(response, "statusCode")
    /\ response.statusCode \in StatusCodes
    /\ Has(response, "body")

GenericError == create_error_response(500, InternalError)

\* C10, as stated: every finished invocation returns an envelope with a
\* status code of 200, 400, 404, 422 or 500, and an exception raised during
\* routing, validation or client construction becomes the generic 500
\* internal-error envelope.
C10_EveryExceptionIsGeneric500 ==
    \A i \in Slots :
        pc[i] = "done" =>
            /\ IsEnvelope(resp[i])
            /\ (~IsContainer(req[i]) \/ RaisesInValidation(req[i])
                \/ RaisesInConstruction(req[i])) => resp[i] = GenericError

\* C10, amended: every finished invocation returns an envelope with a status
\* code of 200, 400, 404, 422 or 500; an exception raised during routing or
\* client construction becomes the generic 500 internal-error envelope, one
\* raised in the pipeline handler the handler's own generic 500, and one
\* raised during validation a 400 "Invalid event structure".
C10_NoFaultEscapes ==
    \A i \in Slots :
        /\ pc[i] = "done" =>
              /\ IsEnvelope(resp[i])
              /\ ~IsContainer(req[i]) => resp[i] = GenericError
              /\ RaisesInConstruction(req[i]) => resp[i] = GenericError
              /\ RaisesInPipeline(req[i]) =>
                    resp[i] = create_error_response(500,
                                  <<"Failed to complete processing pipeline">>)
              /\ RaisesInValidation(req[i]) =>
                    resp[i] = create_error_response(400, <<"Invalid event structure">>)
        /\ pc[i] # "done" => resp[i] = NoResponse
        /\ (req[i] # NoEvent /\ (~IsContainer(req[i]) \/ RaisesInValidation(req[i])
                                 \/ RaisesInConstruction(req[i]) \/ RaisesInPipeline(req[i])))
              => pc[i] = "done"

\* an event that is no JSON object was answered
C10_Witness ==
    \E i \in Slots :
        /\ pc[i] = "done"
        /\ req[i] # NoEvent
        /\ ~IsContainer(req[i])
        /\ resp[i] = GenericError

\* the marks a failed call or stage leaves in the log
FailureMarks ==
    {"hash.failed", "lookup.failed", "extract.failed", "detect.failed",
     "store.failed", "analyze.failed", "report.failed"}

NoFailure(i) == \A k \in DOMAIN log[i] : log[i][k] \notin FailureMarks

\* both invocations have finished the complete pipeline on the same bytes
BothDoneSameBytes ==
    /\ \A i \in Slots : InPipeline(i) /\ pc[i] = "done"
    /\ ObjectAt(loc[1].s3_key) = ObjectAt(loc[2].s3_key)

\* the cache entries that carry the fingerprint of the bytes
EntriesFor(bytes) == {h \in DOMAIN cache : cache[h].file_hash = Sha256(bytes)}

\* one entry for the bytes, under their fingerprint, written by one of the two
OneEntryWins(bytes) ==
    /\ Cardinality(EntriesFor(bytes)) = 1
    /\ Sha256(bytes) \in DOMAIN cache
    /\ \E i \in Slots :
          /\ loc[i].stored
          /\ cache[Sha256(bytes)].extracted_text = loc[i].extracted_text
          /\ cache[Sha256(bytes)].original_filename = loc[i].resume_filename

BothSucceedAlike ==
    /\ \A i \in Slots : IsSuccess(resp[i])
    /\ loc[1].extracted_text = loc[2].extracted_text
    /\ resp[1].body.input_summary.extracted_text_length
          = resp[2].body.input_summary.extracted_text_length

PayloadFields ==
    {"pipeline_status", "processing_steps", "deduplication", "input_summary",
     "analysis_summary", "reports"}

\* every stage of the pipeline has run for invocation i and none has failed:
\* the deduplication check returned, the text came from the cache or from an
\* extraction, the analysis and the report build succeeded
AllStagesSucceeded(i) ==
    /\ Made(i, "s3.get_object")
    /\ \/ loc[i].is_duplicate /\ Made(i, "dynamodb.get_item")
       \/ Made(i, "textract") /\ ~Made(i, "extract.failed")
    /\ Made(i, "bedrock") /\ ~Made(i, "analyze.failed")
    /\ Made(i, "report.url_markdown") /\ Made(i, "report.url_html")
    /\ ~Made(i, "report.failed")

\* the payload is complete: stage statuses, analysis summary, both links
FullPayload(i) ==
    /\ PayloadFields \subseteq DOMAIN resp[i].body
    /\ DOMAIN resp[i].body.processing_steps =
          {"deduplication_check", "text_extraction", "ai_analysis", "report_generation"}
    /\ resp[i].body.processing_steps.deduplication_check = "success"
    /\ resp[i].body.processing_steps.text_extraction \in {"processed", "deduplicated"}
    /\ resp[i].body.processing_steps.ai_analysis = "success"
    /\ resp[i].body.processing_steps.report_generation = "success"
    /\ resp[i].body.analysis_summary = AnalysisSummary(loc[i].analysis)
    /\ Has(resp[i].body.reports.markdown, "download_url")
    /\ Has(resp[i].body.reports.html, "download_url")

\* C11: an outcome of the complete pipeline is never partially filled.  A
\* success response is returned only after the deduplication check, the text
\* acquisition, the analysis and the report build have all succeeded, and it
\* carries the stage statuses, the analysis summary and both report links;
\* every other outcome is an error envelope with a status code and a message
\* and none of those fields; nothing is returned before the pipeline ends.
C11_OutcomeNeverPartial ==
    \A i \in Slots :
        InPipeline(i) =>
            /\ pc[i] # "done" => resp[i] = NoResponse
            /\ (pc[i] = "done" /\ IsSuccess(resp[i])) =>
                  /\ AllStagesSucceeded(i)
                  /\ FullPayload(i)
            /\ (pc[i] = "done" /\ ~IsSuccess(resp[i])) =>
                  /\ resp[i].statusCode \in {400, 422, 500}
                  /\ DOMAIN resp[i].body = {"success", "error"}
                  /\ ~AllStagesSucceeded(i)

\* a pipeline that extracted, stored, analysed and reported has answered
\* with the full payload, after an earlier call ended in an error outcome
C11_Witness ==
    /\ \E i \in Slots :
          /\ InPipeline(i) /\ pc[i] = "done" /\ IsSuccess(resp[i])
          /\ Made(i, "textract") /\ Made(i, "dynamodb.put_item")
          /\ resp[i].body.processing_steps.text_extraction = "processed"
          /\ last[i].called /\ ~last[i].success

\* the fields of the event have the types of the request shapes: the texts
\* are strings and Records is a list
WellTyped(event) ==
    /\ IsContainer(event)
    /\ Has(event, "job_description") => IsStr(event.job_description)
    /\ Has(event, "resume_text") => IsStr(event.resume_text)
    /\ Has(event, "Records") => event.Records.ty = "list"

HasLocator(event) == Has(event, "bucket_name") /\ Has(event, "s3_key")

HasRecordsList(event) ==
    Has(event, "Records") /\ event.Records.ty = "list" /\ event.Records.val # <<>>

HasTexts(event) == Has(event, "resume_text") /\ Has(event, "job_description")

\* the classification the precedence order prescribes for a well-typed event
Classification(event) ==
    IF HasLocator(event) /\ Has(event, "job_description")
    THEN IF Strip(event.job_description.val) = <<>> THEN "invalid" ELSE "complete_pipeline"
    ELSE IF HasRecordsList(event) THEN "s3_upload"
    ELSE IF HasLocator(event) THEN "direct_extraction"
    ELSE IF HasTexts(event)
    THEN IF Strip(event.resume_text.val) = <<>> \/ Strip(event.job_description.val) = <<>>
         THEN "invalid" ELSE "analysis_only"
    ELSE "invalid"

\* the first stage of the handler of an event type
FirstStage(event_type) ==
    IF event_type = "complete_pipeline" THEN "cp_hash"
    ELSE IF event_type = "s3_upload" THEN "s3_extract"
    ELSE IF event_type = "direct_extraction" THEN "di_extract"
    ELSE "ao_analyze"

\* the first external call of the handler of an event type
FirstCall(event_type) ==
    IF event_type = "complete_pipeline" THEN "s3.get_object"
    ELSE IF event_type = "s3_upload" THEN "textract"
    ELSE IF event_type = "direct_extraction" THEN "textract"
    ELSE "bedrock"

\* invocation i is running the handler of the event type: it is at the
\* handler's first stage, or its first call was that handler's
HandledAs(i, event_type) ==
    IF log[i] = <<>> THEN pc[i] = FirstStage(event_type)
    ELSE log[i][1] = FirstCall(event_type)

\* invocation i has received a direct-invocation event with well-typed fields
Routed(i) == req[i] # NoEvent /\ WellTyped(req[i]) /\ ~is_api_gateway_request(req[i])

\* C12: validate_input classifies by first match in a fixed order: locator
\* with job_description is complete_pipeline, otherwise a non-empty Records
\* list is s3_upload, otherwise a locator is direct_extraction, otherwise
\* resume_text with job_description is analysis_only, otherwise (the empty
\* object included) the event is invalid with the descriptive error; an
\* event that matches a shape with a blank job_description or resume_text is
\* invalid and is not reclassified as a later shape.  The handler answers an
\* invalid event with status 400 and starts the handler of a valid one.
C12_FirstMatchClassifies ==
    \A i \in Slots :
        Routed(i) =>
            LET result == validate_input(req[i])
                class == Classification(req[i])
            IN /\ result.valid <=> class # "invalid"
               /\ result.valid => result.event_type = class
               /\ result.valid =>
                     /\ ClientsConstructed(config) => HandledAs(i, class)
                     /\ ~ClientsConstructed(config) => resp[i] = GenericError
               /\ ~result.valid =>
                     /\ pc[i] = "done"
                     /\ resp[i] = create_error_response(400, result.error)
                     /\ result.error \in {InvalidFormatError,
                                          <<"Job description cannot be empty">>,
                                          <<"Resume text cannot be empty">>}
               /\ ~(HasLocator(req[i]) \/ HasRecordsList(req[i]) \/ HasTexts(req[i])) =>
                     result = [valid |-> FALSE, error |-> InvalidFormatError]

\* an event with a locator, a blank job description and a Records list has
\* been rejected rather than taken as a storage event
C12_Witness ==
    \E i \in Slots :
        /\ Routed(i)
        /\ HasLocator(req[i]) /\ HasRecordsList(req[i])
        /\ Has(req[i], "job_description")
        /\ Strip(req[i].job_description.val) = <<>>
        /\ pc[i] = "done"
        /\ resp[i] = create_error_response(400, <<"Job description cannot be empty">>)

\* the shapes of the data model: a locator with a job description, a
\* non-empty Records list, a locator alone, a resume text with a job
\* description
MatchingShapes(event) ==
    {s \in {"complete_pipeline", "s3_upload", "direct_extraction", "analysis_only"} :
        \/ s = "complete_pipeline" /\ HasLocator(event) /\ Has(event, "job_description")
        \/ s = "s3_upload" /\ HasRecordsList(event)
        \/ s = "direct_extraction" /\ HasLocator(event) /\ ~Has(event, "job_description")
        \/ s = "analysis_only" /\ HasTexts(event)}

Ambiguous(event) == Cardinality(MatchingShapes(event)) > 1

IsUpload(event) ==
    /\ IsContainer(event)
    /\ is_api_gateway_request(event)
    /\ HttpMethodOf(event) = "POST"
    /\ HttpPathOf(event) = "/analyze"

\* the event of invocation i is one the validation rejects: a direct
\* invocation validate_input rejects, or an upload the form parser rejects
Rejected(i) ==
    /\ req[i] # NoEvent
    /\ IsContainer(req[i])
    /\ \/ ~is_api_gateway_request(req[i]) /\ ~validate_input(req[i]).valid
       \/ IsUpload(req[i]) /\ ~ParsedForm[req[i]].success

\* the external calls an invocation can make
ExternalCalls ==
    {"s3.get_object", "s3.put_object", "dynamodb.get_item", "dynamodb.put_item",
     "textract", "scrub", "comprehend", "bedrock", "report",
     "report.put_markdown", "report.put_html", "report.url_markdown", "report.url_html"}

\* C14: validation precedes every external call: for every direct invocation
\* that validate_input rejects and every upload that parse_multipart_form_data
\* rejects, the handler returns a status-400 error and has made no storage,
\* cache, extraction, scrubbing, analysis or report call before returning.
C14_ValidationPrecedesCalls ==
    \A i \in Slots :
        Rejected(i) =>
            /\ pc[i] = "done"
            /\ resp[i].statusCode = 400
            /\ Has(resp[i].body, "error")
            /\ \A call \in ExternalCalls : ~Made(i, call)
            /\ log[i] = <<>>
            /\ loc[i] = InitLoc

\* an upload with a job description below the floor was answered 400 after
\* an earlier event of the same invocation slot had been handled
C14_Witness ==
    \E i \in Slots :
        /\ Rejected(i)
        /\ IsUpload(req[i])
        /\ resp[i].body.error = <<"Job description must be at least 50 characters">>
        /\ started = 2


\* the content of the part of a form that goes under one of the names
PartUnder(parts, names) ==
    parts[CHOOSE k \in DOMAIN parts : parts[k].name \in names].content

HasPartUnder(parts, names) == \E k \in DOMAIN parts : parts[k].name \in names

\* the forms built from a file and a job description of at least 50
\* characters, each with what went into it
RoundTripCases ==
    {[event |-> case.event,
      file |-> PartUnder(case.parts, FileFieldNames),
      text |-> PartUnder(case.parts, TextFieldNames)] :
        case \in {c \in FormCases :
                     /\ Len(c.parts) = 2
                     /\ HasPartUnder(c.parts, FileFieldNames)
                     /\ HasPartUnder(c.parts, TextFieldNames)
                     /\ Len(PartUnder(c.parts, TextFieldNames)) >= MIN_JOB_DESCRIPTION}}

\* C16: multipart round trip: for every file byte sequence and every job
\* description of length at least 50, parsing the multipart body built from a
\* file part named resume (or pdf) and a text part named jobDescription (or
\* job_description) returns exactly the original bytes and exactly the
\* original text.
C16_MultipartRoundTrip ==
    \A i \in Slots : \A case \in RoundTripCases :
        req[i] = case.event =>
            /\ ParsedForm[req[i]].success
            /\ ParsedForm[req[i]].pdf_content = case.file
            /\ ParsedForm[req[i]].job_description = case.text


\* the rejection the parser reports
Rejection(message) == [success |-> FALSE, error |-> <<message>>]

\* a file whose bytes the parser leaves as they are
PlainFile(bytes) == bytes # <<>> /\ \A k \in DOMAIN bytes : bytes[k] \notin TrailingArtifacts

\* the forms with a file part the parser takes whole and a text part
TextCases ==
    {case \in FormCases :
        /\ HasPartUnder(case.parts, FileFieldNames)
        /\ PlainFile(PartUnder(case.parts, FileFieldNames))
        /\ HasPartUnder(case.parts, TextFieldNames)}

\* C17: parse_multipart_form_data reports each rejection as its own error and
\* never defaults a missing field: a content type other than
\* multipart/form-data fails with the content-type error whatever the body; a
\* content type without a boundary fails with the boundary error; a body
\* without a file part fails with the file-required error; a body without a
\* text part fails with the job-description-required error; a text part
\* whose trimmed length is below 50 fails with the minimum-length error (a
\* blank one with that or with the required error), and one whose trimmed
\* length is exactly 50 is accepted.
C17_EachRejectionItsOwnError ==
    \A i \in Slots :
        (req[i] # NoEvent /\ IsUpload(req[i])) =>
            LET result == ParsedForm[req[i]]
                content_type == req[i].headers.content_type
            IN /\ ~IsMultipart(content_type) =>
                     result = Rejection("Content-Type must be multipart/form-data")
               /\ (IsMultipart(content_type) /\ ~HasBoundary(content_type)
                   /\ Decodes(req[i].body)) =>
                     result = Rejection("No boundary found in Content-Type header")
               /\ \A case \in FormCases :
                     req[i] = case.event =>
                        /\ ~HasPartUnder(case.parts, FileFieldNames) =>
                              result = Rejection("PDF file is required")
                        /\ (/\ HasPartUnder(case.parts, FileFieldNames)
                            /\ PlainFile(PartUnder(case.parts, FileFieldNames))
                            /\ ~HasPartUnder(case.parts, TextFieldNames)) =>
                              result = Rejection("Job description is required")
               /\ \A case \in TextCases :
                     req[i] = case.event =>
                        LET trimmed == Strip(PartUnder(case.parts, TextFieldNames)) IN
                        /\ trimmed = <<>> =>
                              result \in {Rejection("Job description is required"),
                                          Rejection("Job description must be at least 50 characters")}
                        /\ Len(trimmed) \in 1..(MIN_JOB_DESCRIPTION - 1) =>
                              result = Rejection("Job description must be at least 50 characters")
                        /\ Len(trimmed) = MIN_JOB_DESCRIPTION =>
                              /\ result.success
                              /\ result.job_description = trimmed


\* the object the model sent, when its reply was a text that is one object
SentObject ==
    IF /\ Has(bedrock.reply, "body")
       /\ Has(bedrock.reply.body, "output")
       /\ Has(bedrock.reply.body.output, "message")
       /\ Has(bedrock.reply.body.output.message, "content")
       /\ Len(bedrock.reply.body.output.message.content) > 0
    THEN LET response_text == bedrock.reply.body.output.message.content[1].text
             objects_sent == {k \in DOMAIN response_text : Has(response_text[k], "object")}
         IN IF Cardinality(objects_sent) = 1
            THEN response_text[CHOOSE k \in objects_sent : TRUE].object
            ELSE <<>>
    ELSE <<>>

AnalysisReturned == bedrock.pc = "done" /\ bedrock.result.success

\* C15: every analysis result that the analysis engine returns as success,
\* including one repaired from a reply with fewer than 3 suggestions, a
\* suggestions field that is not a list, a score out of range or a score that
\* is not a number, has 0 <= compatibility_score <= 100 and at least 3
\* suggestions.
C15_ResultWithinBounds ==
    AnalysisReturned =>
        LET analysis == bedrock.result.analysis IN
        /\ analysis["compatibility_score"].ty \in {"int", "float"}
        /\ Tenths(analysis["compatibility_score"]) >= 0
        /\ Tenths(analysis["compatibility_score"]) <= 10 * MAX_SCORE
        /\ analysis["suggestions"].ty = "list"
        /\ Len(analysis["suggestions"].val) >= MIN_SUGGESTIONS

\* a reply with a score above the range and one suggestion came back as a
\* success with the score at the top of the range and three suggestions
C15_Witness ==
    /\ AnalysisReturned
    /\ Has(SentObject, "compatibility_score")
    /\ SentObject["compatibility_score"] = FloatValue(1005)
    /\ SentObject["suggestions"] = List(<<Text("Add AWS")>>)
    /\ bedrock.result.analysis["compatibility_score"] = IntValue(MAX_SCORE)
    /\ bedrock.result.analysis["suggestions"] =
          List(<<Text("Add AWS"), DefaultSuggestions[1], DefaultSuggestions[2]>>)


\* the spans of the detector's answer that are at or above the threshold
MaskedSpans ==
    {redaction.answer.entities[k] : k \in
        {j \in DOMAIN redaction.answer.entities :
            redaction.answer.entities[j].Score >= PII_THRESHOLD}}

RECURSIVE MaskedFrom(_, _, _)
\* the text from offset p on, read left to right: a masked span that begins
\* at p gives its mask characters and the reading goes on at its end; any
\* other character is kept
MaskedFrom(text, spans, p) ==
    IF p >= Len(text) THEN <<>>
    ELSE IF \E e \in spans : e.BeginOffset = p
    THEN LET e == CHOOSE f \in spans : f.BeginOffset = p
         IN Repeat(STAR, Min(e.EndOffset - e.BeginOffset, PII_MASK_CAP))
            \o MaskedFrom(text, spans, e.EndOffset)
    ELSE <<text[p + 1]>> \o MaskedFrom(text, spans, p + 1)

\* C18: PII masking bounds: for any text and any set of non-overlapping
\* detected spans, apply_pii_redaction_to_text replaces exactly each span whose
\* confidence is at or above the threshold (0.7) with min(span length, 8) mask
\* characters, leaves spans below the threshold intact, and leaves every
\* character outside the masked spans unchanged and in order.
C18_MaskingBounds ==
    redaction.pc = "done" =>
        /\ redaction.result.success
        /\ redaction.result.text = MaskedFrom(redaction.text, MaskedSpans, 0)
        /\ redaction.result.redacted = (MaskedSpans # {})

\* three spans came in an order that is not the order of the text: one of
\* eleven characters at the threshold, one of two above it and one below
\* it, and the text came back with eight and two mask characters
C18_Witness ==
    /\ redaction.pc = "done"
    /\ redaction.text = Letters
    /\ redaction.answer.entities =
          <<Entity(95, 1, 3), Entity(PII_THRESHOLD, 3, 12), Entity(PII_THRESHOLD - 1, 12, 16)>>
    /\ redaction.result.text =
          <<97>> \o Repeat(STAR, 2) \o Repeat(STAR, PII_MASK_CAP) \o SubSeq(Letters, 13, 16)


JobStarted == textract.pc \in {"polling", "fetching"} \/ textract.job_status # ""

MaxPolls == MAX_WAIT_TIME \div POLL_INTERVAL

TimedOut ==
    [success |-> FALSE,
     error |-> "Textract job timed out after 300 seconds. Large PDFs may take longer to process."]

\* what the polling loop has done so far is within its bounds, and a call
\* that has returned has returned what the last status asks for
PollingWithinBounds ==
    /\ textract.polls <= MaxPolls
    /\ textract.elapsed_time = POLL_INTERVAL * textract.polls
    /\ textract.elapsed_time <= MAX_WAIT_TIME
    /\ textract.pc = "polling" =>
          /\ textract.job_status \in {"", "IN_PROGRESS", "PARTIAL_SUCCESS"}
          /\ textract.elapsed_time < MAX_WAIT_TIME
    /\ textract.pc = "fetching" => textract.job_status = "SUCCEEDED"
    /\ (textract.pc = "done" /\ textract.job_status # "") =>
          /\ textract.job_status = "SUCCEEDED" =>
                textract.result = ExtractedResult(JoinLines(textract.text_blocks))
          /\ textract.job_status = "FAILED" =>
                textract.result \in
                    {[success |-> FALSE, error |-> "Textract job failed: " \o m] :
                        m \in StatusMessages}
          /\ textract.job_status \notin {"SUCCEEDED", "FAILED", "IN_PROGRESS", "PARTIAL_SUCCESS"} =>
                textract.result = [success |-> FALSE,
                                   error |-> "Unexpected job status: " \o textract.job_status]
          /\ textract.job_status \in {"IN_PROGRESS", "PARTIAL_SUCCESS"} =>
                \/ textract.polls = MaxPolls /\ textract.result = TimedOut
                \/ textract.result \in {JobFailure(outcome) :
                                          outcome \in {o \in PollOutcomes : ~Has(o, "JobStatus")}}
    /\ (textract.pc = "done" /\ textract.result = TimedOut) => textract.polls = MaxPolls

ImmediateTried == textract.immediate # NoResult

FellBack ==
    /\ ImmediateTried
    /\ Has(textract.immediate, "error_code")
    /\ textract.immediate.error_code = "UnsupportedDocumentException"

JobCalled == \E k \in DOMAIN textract.calls : textract.calls[k] = "start_document_text_detection"

ReportBuilt == reporter.pc = "done"

BothPersisted ==
    {ReportKey(REPORT_ID, "md"), ReportKey(REPORT_ID, "html")} \subseteq reporter.stored

BothMinted ==
    /\ reporter.markdown_url # NoResult /\ reporter.markdown_url.success
    /\ reporter.html_url # NoResult /\ reporter.html_url.success

\* C21: create_complete_report_package returns success only if both artifacts
\* were persisted and both retrieval links were minted; if the persist step
\* or the link-minting step fails for either format it returns failure with
\* no report links, never a partial package.
C21_PackageAllOrNothing ==
    ReportBuilt =>
        /\ reporter.result.success <=> (BothPersisted /\ BothMinted)
        /\ reporter.result.success =>
              /\ reporter.result.reports.markdown.s3_key = reporter.markdown_storage.s3_key
              /\ reporter.result.reports.html.s3_key = reporter.html_storage.s3_key
              /\ reporter.result.reports.markdown.download_url = reporter.markdown_url.download_url
              /\ reporter.result.reports.html.download_url = reporter.html_url.download_url
        /\ ~reporter.result.success => DOMAIN reporter.result = {"success", "error"}

\* the markdown artifact was stored and its link minted, the link to the html
\* artifact was refused, and the build failed without links
C21_Witness ==
    /\ ReportBuilt
    /\ BothPersisted
    /\ reporter.markdown_url # NoResult /\ reporter.markdown_url.success
    /\ reporter.html_url # NoResult /\ ~reporter.html_url.success
    /\ reporter.result = [success |-> FALSE, error |-> "Failed to generate download URLs"]


\* the step leaves the entries that exist as they are
EntriesKept ==
    \A h \in DOMAIN cache :
        h \in DOMAIN cache' =>
            /\ cache'[h].extracted_text = cache[h].extracted_text
            /\ cache'[h].original_filename = cache[h].original_filename
            /\ cache'[h].ttl = cache[h].ttl

\* the step writes an entry only for the file an invocation has just extracted
\* after a lookup of its fingerprint
WrittenAfterExtraction ==
    \A h \in DOMAIN cache' :
        (h \notin DOMAIN cache \/ cache'[h] # cache[h]) =>
            \E i \in Slots :
                /\ loc[i].file_hash = h
                /\ Made(i, "textract")
                /\ pc[i] \in {"cp_store", "web_store"}

\* C22: cache entries are read-only after creation: once an entry exists for
\* a fingerprint, no later request changes its text, filename or expiry time;
\* the core writes an entry only after a first-time extraction of that
\* fingerprint.
C22_EntriesReadOnly == [][EntriesKept /\ WrittenAfterExtraction]_vars


\* every call of invocation i to the extractor comes after one of the calls
PrecededBy(i, calls) ==
    \A k \in DOMAIN log[i] :
        log[i][k] = "textract" => \E j \in 1..(k - 1) : log[i][j] \in calls

\* invocation i handles an event of one of the two extraction-only shapes
InExtractionOnly(i) ==
    /\ req[i] # NoEvent
    /\ IsContainer(req[i])
    /\ ~is_api_gateway_request(req[i])
    /\ validate_input(req[i]).valid
    /\ validate_input(req[i]).event_type \in {"s3_upload", "direct_extraction"}

\* C23: the cache is consulted before every extraction attempt: in every
\* request, each call to the text extractor is preceded by a cache lookup for
\* the fingerprint of the file being extracted.
C23_LookupBeforeEveryExtraction ==
    \A i \in Slots : PrecededBy(i, {"dynamodb.get_item"})

\* C23, as the code has it: on the complete-pipeline and upload paths each
\* call to the extractor is preceded by a cache lookup for the fingerprint of
\* the file, or by a fingerprint calculation that failed; the storage-event
\* and direct-extraction paths never consult the cache.
C23_DedupCheckBeforeExtraction ==
    \A i \in Slots :
        /\ (InPipeline(i) \/ (req[i] # NoEvent /\ IsUpload(req[i]))) =>
              /\ PrecededBy(i, {"dynamodb.get_item", "hash.failed"})
              /\ (Made(i, "textract") /\ ~Made(i, "hash.failed")) =>
                    /\ Made(i, "dynamodb.get_item")
                    /\ loc[i].file_hash # NoHash
                    /\ ~loc[i].is_duplicate
              /\ Made(i, "hash.failed") => ~Made(i, "dynamodb.get_item")
        /\ InExtractionOnly(i) => ~Made(i, "dynamodb.get_item")

\* a complete-pipeline invocation looked the fingerprint up, missed, and
\* extracted the file
C23_Witness ==
    \E i \in Slots :
        /\ InPipeline(i)
        /\ Len(log[i]) >= 3
        /\ SubSeq(log[i], 1, 3) = <<"s3.get_object", "dynamodb.get_item", "textract">>
        /\ pc[i] = "done"
        /\ IsSuccess(resp[i])


\* invocation i makes its cache lookup in this step, and the call returns
LooksUp(i) ==
    /\ pc[i] \in {"cp_lookup", "web_lookup"}
    /\ pc'[i] # pc[i]
    /\ log'[i] = log[i] \o <<"dynamodb.get_item">>

\* invocation i makes its cache write in this step, and the call returns
Writes(i) ==
    /\ pc[i] \in {"cp_store", "web_store"}
    /\ pc'[i] # pc[i]
    /\ log'[i] = log[i] \o <<"dynamodb.put_item">>

\* C24: expiry is advisory: a cache write sets the entry's expiry time to 12
\* hours after the write, and a lookup returns any entry the store still
\* holds as a hit, whatever its expiry time and the current time.
C24_ExpiryAdvisory ==
    [][\A i \in Slots :
          /\ Writes(i) =>
                /\ loc[i].file_hash \in DOMAIN cache'
                /\ cache'[loc[i].file_hash].ttl = now + TTL_HOURS
          /\ (LooksUp(i) /\ loc[i].file_hash \in DOMAIN cache) =>
                /\ loc'[i].is_duplicate
                /\ loc'[i].extracted_text = cache[loc[i].file_hash].extracted_text
                /\ loc'[i].cached_until = cache[loc[i].file_hash].ttl
                /\ pc'[i] \in {"cp_analyze", "web_analyze"}]_vars

\* a request was answered from an entry whose expiry time has come and which
\* the store still holds
C24_Witness ==
    \E i \in Slots :
        /\ InPipeline(i)
        /\ loc[i].is_duplicate
        /\ loc[i].file_hash \in DOMAIN cache
        /\ cache[loc[i].file_hash].ttl <= now
        /\ loc[i].cached_until = cache[loc[i].file_hash].ttl
        /\ ~Made(i, "textract")
        /\ pc[i] = "done"
        /\ IsSuccess(resp[i])


\* C25: empty input is never hashed: calculate_file_hash fails with an error
\* on empty or absent bytes and returns no fingerprint; for an empty or
\* unreadable stored object calculate_s3_file_hash returns no fingerprint,
\* and the complete pipeline then makes no cache lookup and no cache write
\* for that request and proceeds to extraction.
C25_EmptyInputNeverHashed ==
    /\ \A file_content \in {NoObject, EmptyFile} :
          /\ calculate_file_hash(file_content).raised = "ValueError"
          /\ calculate_file_hash(file_content).hash_value = NoHash
    /\ \A object \in Files \cup {NoObject}, read_ok \in BOOLEAN :
          (~read_ok \/ object \in {NoObject, EmptyFile}) =>
              calculate_s3_file_hash(object, read_ok) = NoHash
    /\ \A h \in DOMAIN cache : h # NoHash /\ h # Sha256(EmptyFile)
    /\ \A i \in Slots :
          InPipeline(i) =>
              /\ (Made(i, "s3.get_object") /\ ObjectAt(loc[i].s3_key) \in {NoObject, EmptyFile}) =>
                    Made(i, "hash.failed")
              /\ Made(i, "hash.failed") =>
                    /\ loc[i].file_hash = NoHash
                    /\ ~Made(i, "dynamodb.get_item")
                    /\ ~Made(i, "dynamodb.put_item")
                    /\ \/ pc[i] = "cp_extract" /\ log[i] = <<"s3.get_object", "hash.failed">>
                       \/ Len(log[i]) >= 3 /\ log[i][3] = "textract"

\* a complete-pipeline request whose object could not be read for hashing
\* went on to extract it and succeeded without touching the cache
C25_Witness ==
    \E i \in Slots :
        /\ InPipeline(i)
        /\ Made(i, "hash.failed")
        /\ Made(i, "textract")
        /\ ~Made(i, "dynamodb.get_item")
        /\ ~Made(i, "dynamodb.put_item")
        /\ pc[i] = "done"
        /\ IsSuccess(resp[i])


\* invocation i writes its upload to the object store in this step
Uploads(i) ==
    /\ pc[i] = "web_upload"
    /\ log'[i] = log[i] \o <<"s3.put_object">>

\* the key is one the upload path writes under
IsUploadKey(s3_key) ==
    /\ Len(s3_key) >= Len(UploadPrefix)
    /\ SubSeq(s3_key, 1, Len(UploadPrefix)) = UploadPrefix

\* C26: on the HttpUpload path the fingerprint is a collision-free natural
\* key for storage writes: two uploads with different bytes never write to
\* the same object-store key, and repeated uploads of identical bytes never
\* create a second stored object.
C26_FingerprintKeysStorageWrites ==
    [][\A i \in Slots :
          Uploads(i) =>
              \A k \in DOMAIN objects :
                  IsUploadKey(k) =>
                      /\ k = loc[i].s3_key => objects[k] = loc[i].pdf_content
                      /\ objects[k] = loc[i].pdf_content => k = loc[i].s3_key]_vars

\* what the complete pipeline answers when the extraction failed
ExtractionFailed(extraction_result) ==
    create_error_response(422, <<"Text extraction failed: ", extraction_result.error>>)

\* the messages of the extraction client that no upstream text enters
ExtractionCategoryMessages ==
    {"Unsupported file format. Only PDF files are supported.",
     "File not found in S3.",
     "Invalid PDF file. The file may be corrupted or password-protected.",
     "Access denied to S3 object or Textract service.",
     "PDF processing failed due to service error.",
     "PDF processing failed due to connection error.",
     "PDF processing failed due to unexpected error.",
     "PDF format not supported by Textract. Try converting to a standard PDF format.",
     "No text could be extracted from the PDF. The file may be corrupted or password-protected.",
     "Textract job timed out after 300 seconds. Large PDFs may take longer to process."}
    \cup {"Unexpected job status: " \o status : status \in JobStatuses}

\* C27: no error message returned to a caller contains raw upstream error
\* text: every failure of the extraction service reaches the caller only as
\* one of a fixed set of category messages, whatever message the upstream
\* service supplied.
C27_NoUpstreamTextInErrors ==
    (textract.pc = "done" /\ ~textract.result.success) =>
        /\ ExtractionFailed(textract.result).body.error[2] \in ExtractionCategoryMessages
        /\ DOMAIN textract.result = {"success", "error"}


\* C28: every response of every path has the uniform envelope shape: a
\* statusCode and a body that contains a boolean success field, together with
\* the payload fields when success is true and an error message when success
\* is false.
C28_UniformEnvelope ==
    \A i \in Slots :
        resp[i] # NoResponse =>
            /\ Has(resp[i], "statusCode")
            /\ Has(resp[i], "body")
            /\ Has(resp[i].body, "success")
            /\ resp[i].body.success \in BOOLEAN
            /\ resp[i].body.success => ~Has(resp[i].body, "error")
            /\ ~resp[i].body.success => Has(resp[i].body, "error")


\* invocation i handles a request that arrived over the HTTP surface
IsHttp(i) ==
    /\ req[i] # NoEvent
    /\ IsContainer(req[i])
    /\ is_api_gateway_request(req[i])

\* C29: every response produced for a request that arrives over the HTTP
\* surface (preflight, /analyze, /enhance, unknown endpoint, validation error
\* and internal error) carries the permissive CORS headers, including
\* Access-Control-Allow-Origin set to *.
C29_HttpResponsesCarryCors ==
    \A i \in Slots :
        (IsHttp(i) /\ resp[i] # NoResponse) =>
            /\ Has(resp[i], "headers")
            /\ resp[i].headers = CorsHeaders
            /\ resp[i].headers.AccessControlAllowOrigin = "*"

\* an upload whose clients could not be constructed was answered with the
\* internal error, under the CORS headers
C29_Witness ==
    \E i \in Slots :
        /\ IsHttp(i)
        /\ HttpMethodOf(req[i]) = "POST"
        /\ ~config.cache_table
        /\ resp[i] # NoResponse
        /\ resp[i].statusCode = 500
        /\ Has(resp[i], "headers")
        /\ resp[i].headers.AccessControlAllowOrigin = "*"

\* invocation i handles a preflight request
IsPreflight(i) == IsHttp(i) /\ HttpMethodOf(req[i]) = "OPTIONS"

\* C30: a preflight (OPTIONS) request to either endpoint receives a
\* status-200 permissive CORS response without the body being parsed, any
\* client constructed or any pipeline stage invoked.
C30_PreflightTouchesNothing ==
    \A i \in Slots :
        IsPreflight(i) =>
            /\ pc[i] = "done"
            /\ resp[i] = create_cors_response(200, [message |-> "CORS preflight"])
            /\ resp[i].headers.AccessControlAllowOrigin = "*"
            /\ loc[i] = InitLoc
            /\ log[i] = <<>>

\* a preflight whose body cannot be decoded, received where no client can be
\* constructed, was answered 200
C30_Witness ==
    \E i \in Slots :
        /\ IsPreflight(i)
        /\ HttpPathOf(req[i]) = "/analyze"
        /\ req[i].body = UndecodableBody
        /\ ~config.cache_table
        /\ resp[i] # NoResponse
        /\ resp[i].statusCode = 200
        /\ log[i] = <<>>


(***************************************************************************)
(* The two renderings of one analysis result, read back from the text.     *)
(***************************************************************************)
\* the tier a rendering names, from the sentence it prints
TierOfSentence(sentence) ==
    IF sentence \in {ExcellentMessage,
                     "**Excellent match!** Your resume aligns very well with the job requirements."}
    THEN "excellent"
    ELSE IF sentence \in {GoodMessage,
                          "**Good match** with room for improvement. Consider the suggestions below."}
    THEN "good"
    ELSE IF sentence \in {PoorMessage,
                          "**Needs improvement** to better match the job requirements."}
    THEN "needs improvement"
    ELSE "none"

\* the line after the score line of the Markdown report
MarkdownTier(markdown_content) ==
    LET k == CHOOSE k \in DOMAIN markdown_content :
                 markdown_content[k] = <<"## Compatibility Score">>
    IN TierOfSentence(markdown_content[k + 3][1])

\* the score message of the HTML report's score section
HtmlTier(html_content) ==
    LET k == CHOOSE k \in DOMAIN html_content : Len(html_content[k]) = 5
    IN TierOfSentence(html_content[k][4])

\* the tier of a score: 80 and above, 60 up to 80, below 60
TierOfScore(score) ==
    IF AtLeast(score, IntValue(80)) THEN "excellent"
    ELSE IF AtLeast(score, IntValue(60)) THEN "good"
    ELSE "needs improvement"

\* the run of item lines that follows an opening line, without the markup
\* around each item: the item is the last piece of a Markdown line and the
\* middle piece of an HTML one
ItemsAfter(content, opening, piece) ==
    IF ~\E k \in DOMAIN content : content[k] = <<opening>> THEN <<>>
    ELSE
    LET k == CHOOSE k \in DOMAIN content : content[k] = <<opening>>
        from == CHOOSE j \in (k + 1)..Len(content) :
                     /\ Len(content[j]) > 1
                     /\ \A m \in (k + 1)..(j - 1) : Len(content[m]) = 1
        upto == CHOOSE j \in from..Len(content) :
                    /\ \A m \in from..j : Len(content[m]) > 1
                    /\ j = Len(content) \/ Len(content[j + 1]) = 1
    IN [n \in 1..(upto - from + 1) |-> content[from + n - 1][piece]]

\* the analysis result the renderer was handed, with the defaults of .get
Rendered(field) == Get(renderer.analysis_data, field, <<>>)

RenderedSkills(kind) == Get(Rendered("missing_skills"), kind, <<>>)

RenderedScore == Get(renderer.analysis_data, "compatibility_score", IntValue(0))

\* C31: once both formats are rendered, the Markdown report and the HTML
\* report name the same tier, and it is the tier of the score: excellent
\* from 80, good from 60 up to 80, needs improvement below 60
C31_SameTierInBothFormats ==
    renderer.pc = "done" =>
        /\ MarkdownTier(renderer.markdown_content) = TierOfScore(RenderedScore)
        /\ HtmlTier(renderer.html_content) = TierOfScore(RenderedScore)

C31_Witness ==
    /\ renderer.pc = "done"
    /\ RenderedScore = IntValue(80)
    /\ MarkdownTier(renderer.markdown_content) = "excellent"
    /\ HtmlTier(renderer.html_content) = "excellent"

\* C32: once both formats are rendered, each list section shows the same
\* items in the same order in both: the first 10 keywords, 8 technical
\* skills, 6 soft skills, 5 strengths and 5 areas for improvement, and
\* every suggestion
C32_SameItemsInBothFormats ==
    renderer.pc = "done" =>
        LET md == renderer.markdown_content
            html == renderer.html_content
        IN
        /\ ItemsAfter(md, "### Missing Keywords", 2) = Prefix(Rendered("missing_keywords"), 10)
        /\ ItemsAfter(html, KeywordsOpening, 2) = Prefix(Rendered("missing_keywords"), 10)
        /\ ItemsAfter(md, "**Technical Skills:**", 2) = Prefix(RenderedSkills("technical"), 8)
        /\ ItemsAfter(html, TechnicalOpening, 2) = Prefix(RenderedSkills("technical"), 8)
        /\ ItemsAfter(md, "**Soft Skills:**", 2) = Prefix(RenderedSkills("soft"), 6)
        /\ ItemsAfter(html, SoftOpening, 2) = Prefix(RenderedSkills("soft"), 6)
        /\ ItemsAfter(md, "## Your Strengths", 2) = Prefix(Rendered("strengths"), 5)
        /\ ItemsAfter(html, StrengthsOpening, 2) = Prefix(Rendered("strengths"), 5)
        /\ ItemsAfter(md, "## Actionable Recommendations", 3) = Rendered("suggestions")
        /\ ItemsAfter(html, SuggestionsOpening, 2) = Rendered("suggestions")
        /\ ItemsAfter(md, "## Areas for Improvement", 2) = Prefix(Rendered("areas_for_improvement"), 5)
        /\ ItemsAfter(html, AreasOpening, 2) = Prefix(Rendered("areas_for_improvement"), 5)

C32_Witness ==
    /\ renderer.pc = "done"
    /\ Len(Rendered("missing_keywords")) > KEYWORD_CAP
    /\ Len(RenderedSkills("technical")) > TECHNICAL_CAP
    /\ Len(RenderedSkills("soft")) > SOFT_CAP
    /\ Len(Rendered("strengths")) > STRENGTH_CAP
    /\ Len(Rendered("areas_for_improvement")) > AREA_CAP
    /\ Len(Rendered("suggestions")) > KEYWORD_CAP
    /\ Len(ItemsAfter(renderer.html_content, KeywordsOpening, 2)) = KEYWORD_CAP
    /\ Len(ItemsAfter(renderer.markdown_content, "## Actionable Recommendations", 3))
           = Len(Rendered("suggestions"))


\* invocation i, handling a complete-pipeline event, adds the call to its log
\* in this step
Calls(i, call) ==
    /\ InPipeline(i)
    /\ Len(log'[i]) > Len(log[i])
    /\ \E k \in (Len(log[i]) + 1)..Len(log'[i]) : log'[i][k] = call

\* the table differs from what it was at most in the entry of the fingerprint
OnlyEntryChanged(file_hash) ==
    \A h \in DOMAIN cache \cup DOMAIN cache' :
        h # file_hash => h \in DOMAIN cache /\ h \in DOMAIN cache' /\ cache'[h] = cache[h]

\* C33: in the complete pipeline the cache write is made only after the
\* extraction succeeded and the scrubber ran, before any analysis call; it
\* stores the text the scrub step left, under the fingerprint the dedup check
\* of the same request computed, and it is not made when no fingerprint was
\* computed; whatever the write answers the request goes on to the analysis;
\* and the analysis and report steps leave the cache as it is, so the entry
\* stays when they fail.
C33_CacheWriteAfterScrubBeforeAnalysis ==
    [][\A i \in Slots :
          /\ Calls(i, "dynamodb.put_item") =>
                /\ Made(i, "textract") /\ ~Made(i, "extract.failed")
                /\ Made(i, "scrub")
                /\ ~Made(i, "bedrock") /\ ~Made(i, "report")
                /\ Count(i, "dynamodb.put_item") = 0
                /\ Made(i, "s3.get_object") /\ ~Made(i, "hash.failed")
                /\ loc[i].file_hash # NoHash
                /\ OnlyEntryChanged(loc[i].file_hash)
                /\ \/ cache' = cache /\ Calls(i, "store.failed")
                   \/ /\ ~Calls(i, "store.failed")
                      /\ loc[i].file_hash \in DOMAIN cache'
                      /\ cache'[loc[i].file_hash].extracted_text = loc[i].extracted_text
                /\ pc'[i] = "cp_analyze"
                /\ resp'[i] = NoResponse
          /\ Calls(i, "scrub") =>
                /\ \E answer \in DetectorAnswers(loc[i].extracted_text) :
                      loc'[i].extracted_text =
                          apply_pii_redaction_to_text(loc[i].extracted_text, answer).text
                /\ loc'[i].file_hash = loc[i].file_hash
                /\ (loc[i].file_hash = NoHash) => pc'[i] = "cp_analyze"
          /\ (Calls(i, "textract") \/ Calls(i, "dynamodb.get_item")) =>
                loc'[i].file_hash = loc[i].file_hash
          /\ (InPipeline(i) /\ pc[i] \in {"cp_extract", "cp_scrub", "cp_analyze", "cp_report"}
                /\ pc'[i] # pc[i]) =>
                cache' = cache]_vars

\* a request whose analysis failed after its cache write, the entry in place
C33_Witness ==
    \E i \in Slots :
        /\ InPipeline(i)
        /\ pc[i] = "done"
        /\ Made(i, "dynamodb.put_item") /\ ~Made(i, "store.failed")
        /\ Made(i, "analyze.failed")
        /\ loc[i].file_hash \in DOMAIN cache
        /\ cache[loc[i].file_hash].extracted_text = loc[i].extracted_text
        /\ loc[i].pii_redacted


\* every call of the first kind in the log of invocation i comes before
\* every call of the second kind
Before(i, earlier, later) ==
    \A k, m \in DOMAIN log[i] :
        (log[i][k] = earlier /\ log[i][m] = later) => k < m

\* invocation i handles a storage-event notification
InStorageEvent(i) ==
    InExtractionOnly(i) /\ validate_input(req[i]).event_type = "s3_upload"

\* C34: every invocation runs its stages in sequence and at most once: at
\* most one extraction, one scrub, one analysis and one report build, in
\* this order; the analysis is called only after a text was obtained (an
\* extraction that succeeded, a cache hit, or the text of the event, as in
\* the analysis-only and the enhancement request) and the report build only after an analysis that succeeded; a storage-event
\* notification with several records leads to one extraction, of the object
\* of its first record.
C34_StagesInSequenceAtMostOnce ==
    \A i \in Slots :
        /\ Count(i, "textract") <= 1
        /\ Count(i, "scrub") <= 1
        /\ Count(i, "bedrock") <= 1
        /\ Count(i, "report") <= 1
        /\ Before(i, "textract", "scrub")
        /\ Before(i, "scrub", "bedrock")
        /\ Before(i, "textract", "bedrock")
        /\ Before(i, "bedrock", "report")
        /\ Made(i, "scrub") => Made(i, "textract") /\ ~Made(i, "extract.failed")
        /\ Made(i, "bedrock") =>
              \/ Made(i, "textract") /\ ~Made(i, "extract.failed")
              \/ loc[i].is_duplicate /\ Made(i, "dynamodb.get_item")
              \/ IsHttp(i) /\ HttpPathOf(req[i]) = "/enhance"
              \/ ~IsHttp(i) /\ validate_input(req[i]).valid
                    /\ validate_input(req[i]).event_type = "analysis_only"
        /\ Made(i, "report") => Made(i, "bedrock") /\ ~Made(i, "analyze.failed")
        /\ (InStorageEvent(i) /\ req[i].Records.ty = "list" /\ Made(i, "textract")) =>
                  /\ Has(req[i].Records.val[1], "s3")
                  /\ loc[i].s3_key = req[i].Records.val[1].s3.key

\* a notification with two records, answered after one extraction: that of
\* the first record's object
C34_Witness ==
    \E i \in Slots :
        /\ InStorageEvent(i)
        /\ pc[i] = "done"
        /\ req[i].Records.ty = "list"
        /\ Len(req[i].Records.val) = 2
        /\ req[i].Records.val[1].s3.key # req[i].Records.val[2].s3.key
        /\ Count(i, "textract") = 1
        /\ Count(i, "scrub") = 1
        /\ loc[i].s3_key = req[i].Records.val[1].s3.key
        /\ resp[i].statusCode = 200


\* the documents a request of the model can fingerprint
Documents == {FileA, FileB, TwinOfFileA} \cup {objects[k] : k \in DOMAIN objects}

\* the texts the scrub step can leave of the text of a document
ScrubbedTexts(document) ==
    {apply_pii_redaction_to_text(DocText(document), answer).text :
        answer \in DetectorAnswers(DocText(document))}

\* C35: in every reachable state every cache entry maps its fingerprint to
\* the scrubbed text extracted from bytes that have this fingerprint, also
\* when another invocation replaces the stored object between a request's
\* fingerprint computation and its extraction.
C35_CacheIntegrity ==
    \A h \in DOMAIN cache :
        \E document \in Documents :
            /\ document # NoObject
            /\ calculate_file_hash(document).hash_value = h
            /\ cache[h].extracted_text \in ScrubbedTexts(document)


\* invocation i handles an upload whose form was accepted
InUpload(i) ==
    /\ req[i] # NoEvent
    /\ IsContainer(req[i])
    /\ IsUpload(req[i])
    /\ ParsedForm[req[i]].success

\* C36: on the upload path a cache hit is followed by no object-store
\* upload, no extraction, no scrub and no cache write; on a miss the upload
\* comes before the extraction; and a failed upload ends the request with
\* status 500 before any extraction, scrub, cache write, analysis or report
\* build.
C36_UploadPathOrder ==
    \A i \in Slots :
        InUpload(i) =>
            /\ loc[i].is_duplicate =>
                  /\ Made(i, "dynamodb.get_item") /\ ~Made(i, "lookup.failed")
                  /\ ~Made(i, "s3.put_object")
                  /\ ~Made(i, "textract")
                  /\ ~Made(i, "scrub")
                  /\ ~Made(i, "dynamodb.put_item")
            /\ Made(i, "textract") =>
                  /\ Made(i, "s3.put_object") /\ ~Made(i, "upload.failed")
                  /\ Before(i, "s3.put_object", "textract")
                  /\ Before(i, "dynamodb.get_item", "s3.put_object")
            /\ Count(i, "s3.put_object") <= 1
            /\ Made(i, "upload.failed") =>
                  /\ pc[i] = "done"
                  /\ resp[i].statusCode = 500
                  /\ ~Made(i, "textract")
                  /\ ~Made(i, "scrub")
                  /\ ~Made(i, "dynamodb.put_item")
                  /\ ~Made(i, "bedrock")
                  /\ ~Made(i, "report")

\* an upload answered 200 from the cache: a lookup, the analysis and the
\* report build, nothing else
C36_Witness ==
    \E i \in Slots :
        /\ InUpload(i)
        /\ pc[i] = "done"
        /\ loc[i].is_duplicate
        /\ resp[i].statusCode = 200
        /\ Made(i, "bedrock") /\ Made(i, "report")
        /\ ~Made(i, "s3.put_object") /\ ~Made(i, "textract")
        /\ loc[i].file_hash \in DOMAIN cache


\* the calls of an extraction and of a scrub
ExtractionCalls == {"textract", "extract.failed", "scrub", "comprehend", "detect.failed"}

\* C37: the storage-event and the direct-extraction path leave the cache and
\* the report store as they are: every step of such a request, from its
\* receipt to its answer, leaves the table, the buckets and the report
\* client unchanged, and the calls it makes are those of one extraction and
\* one scrub: no cache lookup, no cache write, no analysis, no report build.
C37_ExtractionPathsFrame ==
    [][\A i \in Slots :
          (InExtractionOnly(i)' /\ (pc'[i] # pc[i] \/ req'[i] # req[i])) =>
              /\ cache' = cache
              /\ objects' = objects
              /\ reporter' = reporter
              /\ bedrock' = bedrock
              /\ \A k \in DOMAIN log'[i] : log'[i][k] \in ExtractionCalls
              /\ pc'[i] \in {"s3_extract", "s3_scrub", "di_extract", "di_scrub", "done"}]_vars

\* a direct extraction answered with its text while the cache holds an entry
C37_Witness ==
    \E i \in Slots :
        /\ InExtractionOnly(i)
        /\ pc[i] = "done"
        /\ resp[i].statusCode = 200
        /\ Made(i, "textract") /\ Made(i, "scrub")
        /\ DOMAIN cache # {}
        /\ validate_input(req[i]).event_type = "direct_extraction"


\* the request of invocation i has no real reports bucket: the event names
\* an empty one, the placeholder or one that starts with local-, or it names
\* none and the deployment sets none
NoRealReportsBucket(i) ==
    IF Has(req[i], "reports_bucket")
    THEN \/ req[i].reports_bucket.val = <<>>
         \/ req[i].reports_bucket.val = PlaceholderBucket
         \/ StartsWith(req[i].reports_bucket.val, LocalPrefix)
    ELSE config.reports_bucket = NoBucket

\* invocation i has an analysis that succeeded
Analysed(i) == Made(i, "bedrock") /\ ~Made(i, "analyze.failed")

\* C38: an analysis-only request without a real reports bucket never calls
\* the report builder, and when its analysis succeeded it is answered with
\* success, the analysis summary and the local-mode marker; a
\* complete-pipeline request calls the report builder after every analysis
\* that succeeded, whatever its reports bucket is.
C38_LocalModeSkipsReportBuilder ==
    \A i \in Slots :
        /\ (InAnalysisOnly(i) /\ NoRealReportsBucket(i)) =>
              /\ ~Made(i, "report")
              /\ pc[i] # "ao_report"
              /\ Analysed(i) =>
                    /\ pc[i] = "done"
                    /\ resp[i].statusCode = 200
                    /\ resp[i].body.success
                    /\ resp[i].body.analysis_summary = AnalysisSummary(loc[i].analysis)
                    /\ resp[i].body.metadata.execution_mode = "local"
        /\ (InPipeline(i) /\ Analysed(i)) =>
              \/ pc[i] = "cp_report" /\ ~Made(i, "report")
              \/ pc[i] = "done" /\ Count(i, "report") = 1 /\ Before(i, "bedrock", "report")

\* an analysis-only request that names a local- bucket under a deployment
\* with a real one, answered in local mode
C38_Witness ==
    \E i \in Slots :
        /\ InAnalysisOnly(i)
        /\ Has(req[i], "reports_bucket")
        /\ req[i].reports_bucket.val = LocalBucket
        /\ config.reports_bucket = RealReportsBucket
        /\ pc[i] = "done"
        /\ Analysed(i)
        /\ ~Made(i, "report")
        /\ resp[i].body.metadata.execution_mode = "local"


\* C39: the report build puts both artifacts before it mints a link: a link
\* call is made only after both puts were made and both succeeded; the html
\* put is made also when the markdown put failed; and no step of the build
\* removes an artifact from the bucket, so a build that fails can leave one
\* or both artifacts there.
C39_ReportBuildOrder ==
    [][/\ reporter.stored \subseteq reporter'.stored
       /\ (reporter'.markdown_url # NoResult \/ reporter'.html_url # NoResult) =>
             /\ reporter'.markdown_storage # NoResult
             /\ reporter'.html_storage # NoResult
             /\ reporter'.markdown_storage.success
             /\ reporter'.html_storage.success
       /\ (reporter'.html_url # NoResult) => reporter'.markdown_url # NoResult
       /\ (reporter'.html_storage # NoResult) => reporter'.markdown_storage # NoResult
       /\ (reporter'.pc = "done" /\ reporter'.markdown_storage # NoResult) =>
             reporter'.html_storage # NoResult
       /\ (reporter'.pc \in {"url_markdown", "url_html"}) =>
             /\ reporter'.markdown_storage # NoResult
             /\ reporter'.html_storage # NoResult
             /\ reporter'.markdown_storage.success
             /\ reporter'.html_storage.success]_vars

\* a failed build whose markdown put failed and whose html artifact is in
\* the bucket
C39_Witness ==
    /\ reporter.pc = "done"
    /\ ~reporter.result.success
    /\ reporter.markdown_storage # NoResult
    /\ ~reporter.markdown_storage.success
    /\ reporter.html_storage # NoResult
    /\ reporter.html_storage.success
    /\ reporter.stored = {reporter.html_storage.s3_key}
    /\ reporter.markdown_url = NoResult
    /\ reporter.html_url = NoResult


\* the skills lists of the nested field of an analysis result
NestedList(analysis_data, kind) ==
    IF Has(analysis_data, "missing_skills") /\ analysis_data.missing_skills.ty = "dict"
       /\ Has(analysis_data.missing_skills.val, kind)
    THEN analysis_data.missing_skills.val[kind]
    ELSE List(<<>>)

\* invocation i has answered an upload with its analysis
Answered(i) ==
    /\ InUpload(i)
    /\ pc[i] = "done"
    /\ resp[i].statusCode = 200
    /\ Analysed(i)

\* C40: the missingSkills lists of the upload response are those of the
\* top-level fields missing_technical_skills and missing_soft_skills of the
\* analysis result, whatever the nested missing_skills field holds; a list
\* whose top-level field is missing is empty, so for a result that carries
\* only the nested field both lists are empty.
C40_SkillsFromTopLevelFields ==
    \A i \in Slots :
        Answered(i) =>
            /\ Has(loc[i].analysis, "missing_technical_skills") =>
                  resp[i].body.missingSkills.technical = loc[i].analysis.missing_technical_skills
            /\ Has(loc[i].analysis, "missing_soft_skills") =>
                  resp[i].body.missingSkills.soft = loc[i].analysis.missing_soft_skills
            /\ ~Has(loc[i].analysis, "missing_technical_skills") =>
                  resp[i].body.missingSkills.technical = <<>>
            /\ ~Has(loc[i].analysis, "missing_soft_skills") =>
                  resp[i].body.missingSkills.soft = <<>>

\* an upload answered with two empty lists although the nested field of its
\* analysis names a technical and a soft skill
C40_Witness ==
    \E i \in Slots :
        /\ Answered(i)
        /\ ~Has(loc[i].analysis, "missing_technical_skills")
        /\ ~Has(loc[i].analysis, "missing_soft_skills")
        /\ NestedList(loc[i].analysis, "technical") = List(<<Text("AWS")>>)
        /\ NestedList(loc[i].analysis, "soft") = List(<<Text("mentoring")>>)
        /\ resp[i].body.missingSkills = [technical |-> <<>>, soft |-> <<>>]


====
